---- MODULE Spec2Model ----
(***************************************************************************)
(* Deployment steps, their content-addressed cache keys and the execution  *)
(* of deployments (agent_tools/environment_deployments.py), the deployer   *)
(* that preceded them (agent_tools/environment_deployers.py) and the       *)
(* builder steps (agent_build/tools/builder.py).                           *)
(***************************************************************************)
EXTENDS Naturals, Sequences, FiniteSets, TLC

(***************************************************************************)
(* Bounds of the model.                                                    *)
(***************************************************************************)
\* Number of filesystem changes in one behaviour.
MaxEdits == 1

\* Number of Deployment.deploy calls in one behaviour.
MaxDeploys == 2

VARIABLES
    fs,          \* the source tree: path -> [exists, mode, data]
    edits,       \* number of filesystem changes made so far
    seed,        \* per process: the string hash seed (order of set iteration)
    steps,       \* per process: the steps of its Deployment, <<>> before construction
    evals,       \* the last two evaluations of checksum / cache_key
    cache_dir,   \* the cache directory given to deploy: <<>> (None) or <<dir>>
    images,      \* local docker registry: the image names present
    containers,  \* docker containers present
    files,       \* files under the cache directory: [path, state], state "partial" or "complete"
    pc,          \* per process: its position in deploy / run
    cur,         \* per process: the position of deploy's loop over the steps
    frame,       \* per process: the locals of the running step
    log,         \* events of the deploys, oldest first
    ndeploys     \* number of deploy calls started

dockerVars == <<cache_dir, images, containers, files, pc, cur, frame, log, ndeploys>>
vars == <<fs, edits, seed, steps, evals, cache_dir, images, containers, files,
          pc, cur, frame, log, ndeploys>>

(***************************************************************************)
(* Python values.                                                          *)
(***************************************************************************)
\* None is the empty tuple, a value v that may be None is <<v>>.
None == <<>>

Some(v) == <<v>>

Range(s) == {s[i] : i \in 1..Len(s)}

Digits == <<"0", "1", "2", "3", "4", "5", "6", "7", "8", "9">>

\* str(n) of a non-negative integer.
RECURSIVE Str(_)
Str(n) == IF n < 10 THEN Digits[n + 1] ELSE Str(n \div 10) \o Digits[(n % 10) + 1]

\* s.replace(old, new) for a one-character old.
RECURSIVE Replace(_, _, _)
Replace(s, old, new) ==
    IF Len(s) = 0 THEN ""
    ELSE (IF SubSeq(s, 1, 1) = old THEN new ELSE SubSeq(s, 1, 1))
         \o Replace(SubSeq(s, 2, Len(s)), old, new)

\* hashlib.sha256(data).hexdigest(), collision-free: the digest determines
\* the data that were hashed, and no file holds the characters "<" and ">".
Sha256Hex(data) == "<" \o data \o ">"

(***************************************************************************)
(* The source tree.                                                        *)
(***************************************************************************)
\* Paths relative to __SOURCE_ROOT__, in the order pathlib sorts them.
SortedPaths == <<"bp/Dockerfile", "deploy_build.sh", "deploy_dev.sh",
                 "req/extra.txt", "req/main.txt">>

Paths == Range(SortedPaths)

\* st_mode of a regular file: 0o100644 and 0o100755.
Modes == {33188, 33261}

Datas == {"x", "y"}

Absent == [exists |-> FALSE, mode |-> 33188, data |-> ""]

File(m, d) == [exists |-> TRUE, mode |-> m, data |-> d]

InitFs ==
    [p \in Paths |->
        CASE p = "req/extra.txt" -> Absent
          [] p \in {"deploy_build.sh", "deploy_dev.sh"} -> File(33261, "x")
          [] OTHER -> File(33188, "x")]

\* pathlib's glob of a pattern against the source root: the paths the pattern
\* matches among the ones that exist. A pattern without wildcard matches itself.
Matches(glob) ==
    CASE glob = "bp/*" -> {"bp/Dockerfile"}
      [] glob = "req/*.txt" -> {"req/extra.txt", "req/main.txt"}
      [] OTHER -> {glob} \cap Paths

Glob(glob, f) == {p \in Matches(glob) : f[p].exists}

(***************************************************************************)
(* Step classes (environment_deployments.py, 597-643).                     *)
(***************************************************************************)
StepClasses == {"InstallPythonStep", "InstallBuildRequirementsStep",
                "InstallTestRequirementsDeploymentStep"}

\* DockerFileDeploymentStep subclasses; the others are ShellScriptDeploymentSteps.
DockerFileClasses == {"InstallPythonStep"}

USED_FILES(cls) ==
    CASE cls = "InstallPythonStep" -> <<"bp/*">>
      [] cls = "InstallBuildRequirementsStep" -> <<"req/*.txt">>
      [] cls = "InstallTestRequirementsDeploymentStep" -> <<"req/*.txt">>

\* DOCKERFILE_PATH of a DockerFileDeploymentStep, SCRIPT_PATH of a
\* ShellScriptDeploymentStep.
OWN_PATH(cls) ==
    CASE cls = "InstallPythonStep" -> "bp/Dockerfile"
      [] cls = "InstallBuildRequirementsStep" -> "deploy_build.sh"
      [] cls = "InstallTestRequirementsDeploymentStep" -> "deploy_dev.sh"

\* DeploymentStep.name: the class name in snake case.
Name(cls) ==
    CASE cls = "InstallPythonStep" -> "install_python_step"
      [] cls = "InstallBuildRequirementsStep" -> "install_build_requirements_step"
      [] cls = "InstallTestRequirementsDeploymentStep" ->
            "install_test_requirements_deployment_step"

Architectures == {"x86_64", "arm64"}

(***************************************************************************)
(* Construction of steps.                                                  *)
(***************************************************************************)
HashSeeds == {"h1", "h2"}

\* list(a_set): the elements in the order the process's string hashing gives.
RECURSIVE SetToList(_, _, _)
SetToList(S, sd, i) ==
    IF i > Len(SortedPaths) THEN <<>>
    ELSE LET p == IF sd = "h1" THEN SortedPaths[i]
                  ELSE SortedPaths[Len(SortedPaths) + 1 - i]
         IN (IF p \in S THEN <<p>> ELSE <<>>) \o SetToList(S, sd, i + 1)

\* sorted(a_list) of distinct paths.
Sorted(l) == SelectSeq(SortedPaths, LAMBDA p : p \in Range(l))

\* _init_used_files returning list(set(used_files)) as it is.
InitUsedFilesUnsorted(file_globs, f, sd) ==
    SetToList(UNION {Glob(file_globs[k], f) : k \in 1..Len(file_globs)}, sd, 1)

\* DeploymentStep._init_used_files
InitUsedFiles(file_globs, f, sd) ==
    Sorted(SetToList(UNION {Glob(file_globs[k], f) : k \in 1..Len(file_globs)}, sd, 1))

\* The used_files a step has after the constructor of its class has run:
\* DeploymentStep.__init__ resolves USED_FILES, the subclass resolves that
\* list again with its Dockerfile or script added.
ConstructUsedFiles(cls, f, sd) ==
    InitUsedFiles(InitUsedFiles(USED_FILES(cls), f, sd) \o <<OWN_PATH(cls)>>, f, sd)

(***************************************************************************)
(* Derived attributes of a step. ss is the sequence of the steps of one    *)
(* Deployment, a step is                                                   *)
(*   [cls, architecture, previous_step, base_docker_image, used_files]     *)
(* with previous_step the index of the step before it, 0 for none.         *)
(***************************************************************************)
\* DeploymentStep.initial_docker_image
RECURSIVE InitialDockerImage(_, _)
InitialDockerImage(ss, i) ==
    IF ss[i].previous_step = 0 THEN ss[i].base_docker_image
    ELSE InitialDockerImage(ss, ss[i].previous_step)

\* in_docker without the override of DockerFileDeploymentStep.
InDockerNoOverride(ss, i) == InitialDockerImage(ss, i) # None

\* in_docker that looks only at an image given to the step itself.
InDockerOwnImage(ss, i) ==
    IF ss[i].cls \in DockerFileClasses THEN TRUE
    ELSE ss[i].previous_step = 0 /\ ss[i].base_docker_image # None

\* DeploymentStep.in_docker, overridden by DockerFileDeploymentStep.
InDocker(ss, i) ==
    IF ss[i].cls \in DockerFileClasses THEN TRUE
    ELSE InitialDockerImage(ss, i) # None

\* DeploymentStep.unique_name
UniqueName(ss, i) ==
    LET n1 == Name(ss[i].cls)
        n2 == IF ss[i].previous_step # 0
              THEN n1 \o "_" \o Name(ss[ss[i].previous_step].cls) ELSE n1
        n3 == n2 \o "_" \o ss[i].architecture
    IN IF InDocker(ss, i)
       THEN n3 \o "_" \o Replace(InitialDockerImage(ss, i)[1], ":", "_")
       ELSE n3

\* unique_name raises: the step is in docker and initial_docker_image is
\* None, which has no replace.
UniqueNameRaises(ss, i) == InDocker(ss, i) /\ InitialDockerImage(ss, i) = None

\* FilesInput with the read of the file's bytes left out.
FilesInputNoData(used_files, f) ==
    LET RECURSIVE Upd(_)
        Upd(k) ==
            IF k > Len(used_files) THEN ""
            ELSE LET p == used_files[k]
                 IN (IF f[p].exists THEN p \o Str(f[p].mode) ELSE "") \o Upd(k + 1)
    IN Upd(1)

\* FilesInput with the glob of the parent directory widened to every file.
FilesInputWholeTree(used_files, f) ==
    LET RECURSIVE Upd(_)
        Upd(k) ==
            IF k > Len(SortedPaths) THEN ""
            ELSE LET p == SortedPaths[k]
                 IN (IF f[p].exists
                     THEN p \o Str(f[p].mode) \o f[p].data
                     ELSE "") \o Upd(k + 1)
    IN Upd(1)

\* What checksum feeds to sha256 for the files of the step.
FilesInput(used_files, f) ==
    LET RECURSIVE Upd(_)
        Upd(k) ==
            IF k > Len(used_files) THEN ""
            ELSE LET p == used_files[k]
                 IN (IF f[p].exists
                     THEN p \o Str(f[p].mode) \o f[p].data
                     ELSE "") \o Upd(k + 1)
    IN Upd(1)

\* checksum without the checksum of the previous step.
ChecksumNoSeed(ss, i, f) == Sha256Hex(FilesInput(ss[i].used_files, f))

\* DeploymentStep.checksum
RECURSIVE Checksum(_, _, _)
Checksum(ss, i, f) ==
    Sha256Hex(FilesInput(ss[i].used_files, f)
              \o (IF ss[i].previous_step # 0
                  THEN Checksum(ss, ss[i].previous_step, f) ELSE ""))

\* DeploymentStep.cache_key
CacheKey(ss, i, f) == UniqueName(ss, i) \o "_" \o Checksum(ss, i, f)

\* DeploymentStep.result_image_name
ResultImageName(ss, i, f) == CacheKey(ss, i, f)

(***************************************************************************)
(* Deployment.__init__                                                     *)
(***************************************************************************)
Procs == {1, 2}

\* The (step_classes, architecture, base_docker_image) a Deployment is
\* constructed with.
DeploymentInputs ==
    { [step_classes |-> <<"InstallPythonStep", "InstallBuildRequirementsStep",
                          "InstallTestRequirementsDeploymentStep">>,
       architecture |-> "x86_64", base_docker_image |-> Some("centos:7")],
      [step_classes |-> <<"InstallBuildRequirementsStep",
                          "InstallTestRequirementsDeploymentStep">>,
       architecture |-> "x86_64", base_docker_image |-> None],
      [step_classes |-> <<"InstallBuildRequirementsStep">>,
       architecture |-> "arm64", base_docker_image |-> None],
      [step_classes |-> <<"InstallPythonStep">>,
       architecture |-> "x86_64", base_docker_image |-> Some("centos:7")] }

\* DeploymentStep.__init__ of the step that follows the steps ss.
NewStep(ss, cls, architecture, base, f, sd) ==
    [cls |-> cls,
     architecture |-> architecture,
     previous_step |-> Len(ss),
     base_docker_image |->
        IF Len(ss) > 0 THEN Some(ResultImageName(ss, Len(ss), f)) ELSE base,
     used_files |-> ConstructUsedFiles(cls, f, sd)]

\* The loop of Deployment.__init__ over step_classes[k..].
RECURSIVE MakeSteps(_, _, _, _, _, _)
MakeSteps(ss, k, inp, f, sd, n) ==
    IF k > n THEN ss
    ELSE MakeSteps(Append(ss, NewStep(ss, inp.step_classes[k], inp.architecture,
                                      inp.base_docker_image, f, sd)),
                   k + 1, inp, f, sd, n)

DeploymentInit(inp, f, sd) == MakeSteps(<<>>, 1, inp, f, sd, Len(inp.step_classes))

(***************************************************************************)
(* Cache keys: processes construct deployments and evaluate the keys of    *)
(* their steps while the source tree changes.                              *)
(***************************************************************************)
Construct(p, inp) ==
    /\ steps[p] = <<>>
    /\ steps' = [steps EXCEPT ![p] = DeploymentInit(inp, fs, seed[p])]
    /\ UNCHANGED <<fs, edits, seed, evals>>
    /\ UNCHANGED dockerVars

\* json.dumps of a list of strings that need no escape, from the k-th on.
RECURSIVE JsonItems(_, _)
JsonItems(l, k) ==
    IF k > Len(l) THEN ""
    ELSE (IF k > 1 THEN ", " ELSE "") \o "\"" \o l[k] \o "\"" \o JsonItems(l, k + 1)

JsonDumps(l) == "[" \o JsonItems(l, 1) \o "]"

\* list(reversed(a_list))
Reversed(l) == [k \in 1..Len(l) |-> l[Len(l) + 1 - k]]

\* The command with the cache keys printed in the order of the chain.
AllCacheNamesChainOrder(ss, f) ==
    JsonDumps([i \in 1..Len(ss) |-> CacheKey(ss, i, f)])

\* What get-deployment-all-cache-names prints.
AllCacheNames(ss, f) ==
    JsonDumps(Reversed([i \in 1..Len(ss) |-> CacheKey(ss, i, f)]))

\* One evaluation, by process p, of checksum and cache_key of every step of
\* its deployment, and of the output of get-deployment-all-cache-names. The
\* last two evaluations are kept, each with the process
\* that made it and the tree it was made on.
Evaluate(p) ==
    /\ steps[p] # <<>>
    /\ LET e == [proc |-> p,
                 fs |-> fs,
                 checksum |-> [i \in 1..Len(steps[p]) |-> Checksum(steps[p], i, fs)],
                 cache_key |-> [i \in 1..Len(steps[p]) |-> CacheKey(steps[p], i, fs)],
                 printed |-> AllCacheNames(steps[p], fs)]
       IN evals' = IF Len(evals) < 2 THEN Append(evals, e) ELSE <<evals[2], e>>
    /\ UNCHANGED <<fs, edits, seed, steps>>
    /\ UNCHANGED dockerVars

WriteFile(p, d) ==
    /\ edits < MaxEdits
    /\ fs[p].exists /\ fs[p].data # d
    /\ fs' = [fs EXCEPT ![p].data = d]
    /\ edits' = edits + 1
    /\ UNCHANGED <<seed, steps, evals>>
    /\ UNCHANGED dockerVars

Chmod(p, m) ==
    /\ edits < MaxEdits
    /\ fs[p].exists /\ fs[p].mode # m
    /\ fs' = [fs EXCEPT ![p].mode = m]
    /\ edits' = edits + 1
    /\ UNCHANGED <<seed, steps, evals>>
    /\ UNCHANGED dockerVars

Unlink(p) ==
    /\ edits < MaxEdits
    /\ fs[p].exists
    /\ fs' = [fs EXCEPT ![p] = Absent]
    /\ edits' = edits + 1
    /\ UNCHANGED <<seed, steps, evals>>
    /\ UNCHANGED dockerVars

CreateFile(p, d) ==
    /\ edits < MaxEdits
    /\ ~fs[p].exists
    /\ fs' = [fs EXCEPT ![p] = File(33188, d)]
    /\ edits' = edits + 1
    /\ UNCHANGED <<seed, steps, evals>>
    /\ UNCHANGED dockerVars

NoFrame == [dir |-> None, save_to_cache |-> FALSE, image_found |-> FALSE,
            file_found |-> FALSE, had_entry |-> FALSE]

DockerIdle ==
    /\ images = {}
    /\ containers = {}
    /\ files = {}
    /\ pc = [p \in Procs |-> "idle"]
    /\ cur = [p \in Procs |-> 0]
    /\ frame = [p \in Procs |-> NoFrame]
    /\ log = <<>>
    /\ ndeploys = 0

KeyInit ==
    /\ fs = InitFs
    /\ edits = 0
    /\ seed \in {sd \in [Procs -> HashSeeds] : sd[1] = "h1"}
    /\ steps = [p \in Procs |-> <<>>]
    /\ evals = <<>>
    /\ cache_dir = None
    /\ DockerIdle

KeyNext ==
    \/ \E p \in Procs, inp \in DeploymentInputs : Construct(p, inp)
    \/ \E p \in Procs : Evaluate(p)
    \/ \E p \in Paths, d \in Datas : WriteFile(p, d)
    \/ \E p \in Paths, m \in Modes : Chmod(p, m)
    \/ \E p \in Paths : Unlink(p)
    \/ \E p \in Paths, d \in Datas : CreateFile(p, d)

SpecKey == KeyInit /\ [][KeyNext]_vars

(***************************************************************************)
(* Cache keys while files are rewritten with any content, a content that   *)
(* holds the name and the mode of another file included.                   *)
(***************************************************************************)
MaxRewrites == 2

\* The files that are rewritten.
HashPaths == {"deploy_build.sh", "req/main.txt"}

\* The contents a file is given: the last one is the content "x" followed by
\* what checksum feeds to sha256 for req/main.txt with the content "x".
HashDatas == {"x", "y", "x" \o "req/main.txt" \o Str(33188) \o "x"}

\* A file is written with a content, its mode kept, or removed.
Rewrite(p, file) ==
    /\ edits < MaxRewrites
    /\ fs[p] # file
    /\ fs' = [fs EXCEPT ![p] = file]
    /\ edits' = edits + 1
    /\ UNCHANGED <<seed, steps, evals>>
    /\ UNCHANGED dockerVars

HashNext ==
    \/ \E inp \in DeploymentInputs : Construct(1, inp)
    \/ Evaluate(1)
    \/ \E p \in HashPaths :
          \E file \in {Absent} \cup {File(fs[p].mode, d) : d \in HashDatas} :
              Rewrite(p, file)

SpecHash == KeyInit /\ [][HashNext]_vars

(***************************************************************************)
(* Deployment.deploy and DeploymentStep.run. A process deploys the         *)
(* Deployment it has constructed; every call of docker or of a script is   *)
(* one step of the process.                                                *)
(***************************************************************************)
Event(ev, i, arg) == [ev |-> ev, i |-> i, arg |-> arg]

FilePaths == {x.path : x \in files}

\* cache_dir / step.cache_key, the cache_dir that deploy hands to run.
StepCachePath(ss, i, f) ==
    IF cache_dir # None THEN Some(cache_dir[1] \o "/" \o CacheKey(ss, i, f)) ELSE None

\* cache_dir / self.result_image_name inside run_in_docker.
CachedImagePath(dir, ss, i, f) == dir[1] \o "/" \o ResultImageName(ss, i, f)

IntermediateImageName(ss, i, f) == ResultImageName(ss, i, f) \o "-intermediate"

\* deploy's loop over the steps newest first.
StepAtReversed(ss, k) == Len(ss) + 1 - k

\* The step the k-th round of deploy's loop runs.
StepAt(ss, k) == k

\* The constructor process p has called has returned a Deployment.
Constructed(p) == \E k \in 1..Len(evals) : evals[k].proc = p /\ ~evals[k].raised

\* The CI restores the cached sub-folder of a step before the first deploy.
RestoreCache(p, i) ==
    /\ pc[p] = "idle" /\ ndeploys = 0
    /\ cache_dir # None
    /\ i \in 1..Len(steps[p])
    /\ InDocker(steps[p], i)
    /\ ~UniqueNameRaises(steps[p], i)
    /\ LET path == CachedImagePath(StepCachePath(steps[p], i, fs), steps[p], i, fs)
       IN /\ path \notin FilePaths
          /\ files' = files \cup {[path |-> path, state |-> "complete"]}
    /\ UNCHANGED <<fs, edits, seed, steps, evals, cache_dir, images, containers,
                   pc, cur, frame, log, ndeploys>>

\* Entry of Deployment.deploy.
DeployStart(p) ==
    /\ pc[p] = "idle"
    /\ steps[p] # <<>> \/ Constructed(p)
    /\ ndeploys < MaxDeploys
    /\ ndeploys' = ndeploys + 1
    /\ cur' = [cur EXCEPT ![p] = 1]
    /\ pc' = [pc EXCEPT ![p] = "deploy_loop"]
    /\ log' = Append(log, Event("deploy", 0, ""))
    /\ UNCHANGED <<fs, edits, seed, steps, evals, cache_dir, images, containers,
                   files, frame>>

\* One round of "for step in self.steps": the step's cache path is computed,
\* which raises when cache_key does, and step.run is entered, which chooses
\* between docker and the host.
DeployLoop(p) ==
    /\ pc[p] = "deploy_loop"
    /\ IF cur[p] > Len(steps[p])
       THEN /\ pc' = [pc EXCEPT ![p] = "idle"]
            /\ log' = Append(log, Event("ok", 0, ""))
            /\ frame' = [frame EXCEPT ![p] = NoFrame]
       ELSE IF cache_dir # None /\ UniqueNameRaises(steps[p], StepAt(steps[p], cur[p]))
       THEN /\ pc' = [pc EXCEPT ![p] = "idle"]
            /\ log' = Append(log, Event("failed", 0, ""))
            /\ frame' = [frame EXCEPT ![p] = NoFrame]
       ELSE LET i == StepAt(steps[p], cur[p])
                dir == StepCachePath(steps[p], i, fs)
            IN /\ frame' = [frame EXCEPT ![p] =
                     [NoFrame EXCEPT
                        !.dir = dir,
                        !.had_entry = dir # None /\ InDocker(steps[p], i)
                            /\ CachedImagePath(dir, steps[p], i, fs) \in FilePaths]]
               /\ log' = Append(log, Event("run", i, ""))
               /\ pc' = [pc EXCEPT ![p] =
                     IF InDocker(steps[p], i) THEN "run_in_docker" ELSE "run_locally"]
    /\ UNCHANGED <<fs, edits, seed, steps, evals, cache_dir, images, containers,
                   files, cur, ndeploys>>

\* ShellScriptDeploymentStep._run_locally: the script runs on the host.
\* DockerFileDeploymentStep._run_locally raises.
RunLocally(p) ==
    /\ pc[p] = "run_locally"
    /\ LET i == StepAt(steps[p], cur[p])
       IN IF steps[p][i].cls \in DockerFileClasses
          THEN /\ pc' = [pc EXCEPT ![p] = "raised"]
               /\ log' = log
          ELSE /\ log' = Append(log, Event("exec", i, "script"))
               /\ \/ pc' = [pc EXCEPT ![p] = "returned"]
                  \/ pc' = [pc EXCEPT ![p] = "raised"]
    /\ UNCHANGED <<fs, edits, seed, steps, evals, cache_dir, images, containers,
                   files, cur, frame, ndeploys>>

\* run_in_docker with the lookup in the registry left out.
CacheLookupNoRegistry(image_found, has_dir, file_found) ==
    IF has_dir /\ file_found THEN "docker_load" ELSE "build"

\* run_in_docker with the lookup in the cache directory left out.
CacheLookupNoFile(image_found, has_dir, file_found) ==
    IF image_found THEN "returned" ELSE "build"

\* The two lookups of run_in_docker: where it goes on, given what
\* "docker images -q" and is_file() have answered.
CacheLookup(image_found, has_dir, file_found) ==
    IF image_found THEN "returned"
    ELSE IF has_dir /\ file_found THEN "docker_load"
    ELSE "build"

\* DeploymentStep.run_in_docker up to the build; its first statement reads
\* result_image_name, which raises when unique_name does.
RunInDocker(p) ==
    /\ pc[p] = "run_in_docker"
    /\ IF UniqueNameRaises(steps[p], StepAt(steps[p], cur[p]))
       THEN /\ pc' = [pc EXCEPT ![p] = "raised"]
            /\ frame' = frame
       ELSE LET i == StepAt(steps[p], cur[p])
                dir == frame[p].dir
                image_found == ResultImageName(steps[p], i, fs) \in images
                file_found == dir # None
                              /\ CachedImagePath(dir, steps[p], i, fs) \in FilePaths
                next == CacheLookup(image_found, dir # None, file_found)
            IN /\ pc' = [pc EXCEPT ![p] = next]
               /\ frame' = [frame EXCEPT ![p].image_found = image_found,
                                         ![p].file_found = file_found,
                                         ![p].save_to_cache = next = "build" /\ dir # None]
    /\ UNCHANGED <<fs, edits, seed, steps, evals, cache_dir, images, containers,
                   files, cur, log, ndeploys>>

\* docker load -i cached_image_path: a complete file gives the image its tag.
DockerLoad(p) ==
    /\ pc[p] = "docker_load"
    /\ LET i == StepAt(steps[p], cur[p])
           path == CachedImagePath(frame[p].dir, steps[p], i, fs)
       IN /\ log' = Append(log, Event("load", i, ""))
          /\ \/ /\ [path |-> path, state |-> "complete"] \in files
                /\ images' = images \cup {ResultImageName(steps[p], i, fs)}
                /\ pc' = [pc EXCEPT ![p] = "returned"]
             \/ /\ images' = images
                /\ pc' = [pc EXCEPT ![p] = "raised"]
    /\ UNCHANGED <<fs, edits, seed, steps, evals, cache_dir, containers,
                   files, cur, frame, ndeploys>>

\* DockerFileDeploymentStep._run_in_docker: build_in_docker.run_docker_build.
RunDockerBuild(p) ==
    /\ pc[p] = "build"
    /\ LET i == StepAt(steps[p], cur[p])
       IN /\ steps[p][i].cls \in DockerFileClasses
          /\ log' = Append(log, Event("exec", i, "docker_build"))
          /\ \/ /\ images' = images \cup {ResultImageName(steps[p], i, fs)}
                /\ pc' = [pc EXCEPT ![p] = "built"]
             \/ /\ images' = images
                /\ pc' = [pc EXCEPT ![p] = "raised"]
    /\ UNCHANGED <<fs, edits, seed, steps, evals, cache_dir, containers,
                   files, cur, frame, ndeploys>>

\* ShellScriptDeploymentStep._run_in_docker: docker rm -f of the intermediate
\* container, before the try.
ScriptRemoveContainer(p) ==
    /\ pc[p] = "build"
    /\ LET i == StepAt(steps[p], cur[p])
       IN /\ steps[p][i].cls \notin DockerFileClasses
          /\ containers' = containers \ {IntermediateImageName(steps[p], i, fs)}
          /\ pc' = [pc EXCEPT ![p] = "docker_run"]
    /\ UNCHANGED <<fs, edits, seed, steps, evals, cache_dir, images,
                   files, cur, frame, log, ndeploys>>

\* docker run --name intermediate ... base_docker_image: the container is
\* created unless docker fails before it, and is left when the command fails.
ScriptDockerRun(p) ==
    /\ pc[p] = "docker_run"
    /\ LET i == StepAt(steps[p], cur[p])
           c == IntermediateImageName(steps[p], i, fs)
       IN /\ log' = Append(log, Event("exec", i, "docker_run"))
          /\ \/ /\ containers' = containers \cup {c}
                /\ pc' = [pc EXCEPT ![p] = "docker_commit"]
             \/ /\ containers' = containers \cup {c}
                /\ pc' = [pc EXCEPT ![p] = "finally"]
             \/ /\ containers' = containers
                /\ pc' = [pc EXCEPT ![p] = "finally"]
    /\ UNCHANGED <<fs, edits, seed, steps, evals, cache_dir, images,
                   files, cur, frame, ndeploys>>

\* docker commit intermediate intermediate
ScriptDockerCommit(p) ==
    /\ pc[p] = "docker_commit"
    /\ LET i == StepAt(steps[p], cur[p])
       IN \/ /\ images' = images \cup {IntermediateImageName(steps[p], i, fs)}
             /\ pc' = [pc EXCEPT ![p] = "build_stage"]
          \/ /\ images' = images
             /\ pc' = [pc EXCEPT ![p] = "finally"]
    /\ UNCHANGED <<fs, edits, seed, steps, evals, cache_dir, containers,
                   files, cur, frame, log, ndeploys>>

\* build_in_docker.build_stage is called without its parameter output_path,
\* which has no default: the call raises before docker is run.
ScriptBuildStage(p) ==
    /\ pc[p] = "build_stage"
    /\ pc' = [pc EXCEPT ![p] = "finally"]
    /\ UNCHANGED <<fs, edits, seed, steps, evals, cache_dir, images, containers,
                   files, cur, frame, log, ndeploys>>

\* The finally block: docker rm -f of the intermediate container, then
\* docker "image " rm, which is no docker command: check_call raises.
ScriptFinally(p) ==
    /\ pc[p] = "finally"
    /\ LET i == StepAt(steps[p], cur[p])
       IN containers' = containers \ {IntermediateImageName(steps[p], i, fs)}
    /\ pc' = [pc EXCEPT ![p] = "raised"]
    /\ UNCHANGED <<fs, edits, seed, steps, evals, cache_dir, images,
                   files, cur, frame, log, ndeploys>>

\* After _run_in_docker: cached_image_path.open("wb") creates the file.
OpenCachedImage(p) ==
    /\ pc[p] = "built"
    /\ LET i == StepAt(steps[p], cur[p])
       IN IF frame[p].dir # None /\ frame[p].save_to_cache
          THEN LET path == CachedImagePath(frame[p].dir, steps[p], i, fs)
               IN /\ files' = {x \in files : x.path # path}
                                \cup {[path |-> path, state |-> "partial"]}
                  /\ pc' = [pc EXCEPT ![p] = "docker_save"]
          ELSE /\ files' = files
               /\ pc' = [pc EXCEPT ![p] = "returned"]
    /\ UNCHANGED <<fs, edits, seed, steps, evals, cache_dir, images, containers,
                   cur, frame, log, ndeploys>>

\* docker save result_image_name, written to the open file.
DockerSave(p) ==
    /\ pc[p] = "docker_save"
    /\ LET i == StepAt(steps[p], cur[p])
           path == CachedImagePath(frame[p].dir, steps[p], i, fs)
       IN \/ /\ files' = {x \in files : x.path # path}
                           \cup {[path |-> path, state |-> "complete"]}
             /\ pc' = [pc EXCEPT ![p] = "returned"]
          \/ /\ files' = files
             /\ pc' = [pc EXCEPT ![p] = "raised"]
    /\ UNCHANGED <<fs, edits, seed, steps, evals, cache_dir, images, containers,
                   cur, frame, log, ndeploys>>

\* step.run has returned: deploy goes on with the next step.
RunReturned(p) ==
    /\ pc[p] = "returned"
    /\ log' = Append(log, Event("ret", StepAt(steps[p], cur[p]), ""))
    /\ cur' = [cur EXCEPT ![p] = @ + 1]
    /\ pc' = [pc EXCEPT ![p] = "deploy_loop"]
    /\ UNCHANGED <<fs, edits, seed, steps, evals, cache_dir, images, containers,
                   files, frame, ndeploys>>

\* deploy with the exception of a step caught and the loop continued.
OnStepErrorContinue(k) == [pc |-> "deploy_loop", cur |-> k + 1, events |-> <<>>]

\* What deploy does with an exception of step.run in round k: it has no
\* handler, the exception leaves deploy.
OnStepError(k) == [pc |-> "idle", cur |-> k, events |-> <<Event("failed", 0, "")>>]

\* step.run has raised.
RunRaised(p) ==
    /\ pc[p] = "raised"
    /\ LET h == OnStepError(cur[p])
       IN /\ log' = Append(log, Event("raise", StepAt(steps[p], cur[p]), "")) \o h.events
          /\ cur' = [cur EXCEPT ![p] = h.cur]
          /\ pc' = [pc EXCEPT ![p] = h.pc]
    /\ UNCHANGED <<fs, edits, seed, steps, evals, cache_dir, images, containers,
                   files, frame, ndeploys>>

DeployInit ==
    /\ fs = InitFs
    /\ edits = 0
    /\ seed = [p \in Procs |-> "h1"]
    /\ steps = [p \in Procs |-> <<>>]
    /\ evals = <<>>
    /\ cache_dir \in {None, Some("cache")}
    /\ DockerIdle

DeployNext ==
    \/ \E inp \in DeploymentInputs : Construct(1, inp)
    \/ \E i \in 1..3 : RestoreCache(1, i)
    \/ DeployStart(1)
    \/ DeployLoop(1)
    \/ RunLocally(1)
    \/ RunInDocker(1)
    \/ DockerLoad(1)
    \/ RunDockerBuild(1)
    \/ ScriptRemoveContainer(1)
    \/ ScriptDockerRun(1)
    \/ ScriptDockerCommit(1)
    \/ ScriptBuildStage(1)
    \/ ScriptFinally(1)
    \/ OpenCachedImage(1)
    \/ DockerSave(1)
    \/ RunReturned(1)
    \/ RunRaised(1)

SpecDeploy == DeployInit /\ [][DeployNext]_vars

\* deploy in a process that lives on while the source tree changes.
DeployEditsNext ==
    \/ DeployNext
    \/ \E p \in Paths, d \in Datas : WriteFile(p, d)
    \/ \E p \in Paths, m \in Modes : Chmod(p, m)
    \/ \E p \in Paths : Unlink(p)
    \/ \E p \in Paths, d \in Datas : CreateFile(p, d)

SpecDeployEdits == DeployInit /\ [][DeployEditsNext]_vars

\* The cache_dir arguments deploy is called with.
CacheDirs == {None, Some("cache")}

\* Entry of Deployment.deploy(cache_dir): every call has its own argument.
DeployStartIn(p, dir) ==
    /\ pc[p] = "idle"
    /\ steps[p] # <<>> \/ Constructed(p)
    /\ ndeploys < MaxDeploys
    /\ ndeploys' = ndeploys + 1
    /\ cache_dir' = dir
    /\ cur' = [cur EXCEPT ![p] = 1]
    /\ pc' = [pc EXCEPT ![p] = "deploy_loop"]
    /\ log' = Append(log, Event("deploy", 0, ""))
    /\ UNCHANGED <<fs, edits, seed, steps, evals, images, containers, files, frame>>

\* Calls of deploy of one Deployment, with and without a cache directory.
DeployDirsNext ==
    \/ \E inp \in DeploymentInputs : Construct(1, inp)
    \/ \E i \in 1..3 : RestoreCache(1, i)
    \/ \E dir \in CacheDirs : DeployStartIn(1, dir)
    \/ DeployLoop(1)
    \/ RunLocally(1)
    \/ RunInDocker(1)
    \/ DockerLoad(1)
    \/ RunDockerBuild(1)
    \/ ScriptRemoveContainer(1)
    \/ ScriptDockerRun(1)
    \/ ScriptDockerCommit(1)
    \/ ScriptBuildStage(1)
    \/ ScriptFinally(1)
    \/ OpenCachedImage(1)
    \/ DockerSave(1)
    \/ RunReturned(1)
    \/ RunRaised(1)

SpecDeployDirs == DeployInit /\ [][DeployDirsNext]_vars

(***************************************************************************)
(* Deployments of any chain of steps: what can be constructed, and the     *)
(* names and the mode of its steps.                                        *)
(***************************************************************************)
MaxChain == 3

\* The lists of up to MaxChain step classes, no class twice.
ClassLists ==
    {l \in UNION {[1..n -> StepClasses] : n \in 0..MaxChain} :
        \A a \in 1..Len(l), b \in 1..Len(l) : l[a] = l[b] => a = b}

BaseImages == {None, Some("centos:7"), Some("centos_7")}

\* The arguments of Deployment.__init__.
ChainInputs ==
    [step_classes : ClassLists, architecture : Architectures,
     base_docker_image : BaseImages]

\* The arguments of PackageBuilder.__init__ that reach its Deployment, with
\* deployment_step_classes left at its default None or given.
PackageBuilderInputs ==
    [deployment_step_classes : {None} \cup {Some(l) : l \in ClassLists},
     architecture : Architectures, base_docker_image : BaseImages]

\* PackageBuilder.__init__: the arguments it hands to Deployment, with
\* "deployment_step_classes or []".
PackageBuilderDeployment(a) ==
    [step_classes |-> IF a.deployment_step_classes = None THEN <<>>
                      ELSE a.deployment_step_classes[1],
     architecture |-> a.architecture,
     base_docker_image |-> a.base_docker_image]

\* The loop of Deployment.__init__ over step_classes[k..], which raises when
\* result_image_name of the step before raises: [ss, ok].
RECURSIVE TryMakeSteps(_, _, _, _, _)
TryMakeSteps(ss, k, inp, f, sd) ==
    IF k > Len(inp.step_classes) THEN [ss |-> ss, ok |-> TRUE]
    ELSE IF Len(ss) > 0 /\ UniqueNameRaises(ss, Len(ss)) THEN [ss |-> ss, ok |-> FALSE]
    ELSE TryMakeSteps(Append(ss, NewStep(ss, inp.step_classes[k], inp.architecture,
                                         inp.base_docker_image, f, sd)),
                      k + 1, inp, f, sd)

\* Process p, which has called no constructor yet, constructs a Deployment
\* and reads unique_name and in_docker of each of its steps. evals holds, for
\* each call, whether the constructor raised and what was read, None for a
\* unique_name that raised.
ChainConstruct(p, inp) ==
    /\ \A k \in 1..Len(evals) : evals[k].proc # p
    /\ LET r == TryMakeSteps(<<>>, 1, inp, fs, seed[p])
           ss == IF r.ok THEN r.ss ELSE <<>>
           e == [proc |-> p,
                 raised |-> ~r.ok,
                 unique_name |-> [i \in 1..Len(ss) |->
                                    IF UniqueNameRaises(ss, i) THEN None
                                    ELSE Some(UniqueName(ss, i))],
                 in_docker |-> [i \in 1..Len(ss) |-> InDocker(ss, i)]]
       IN /\ steps' = [steps EXCEPT ![p] = ss]
          /\ evals' = Append(evals, e)
    /\ UNCHANGED <<fs, edits, seed>>
    /\ UNCHANGED dockerVars

\* Process p constructs a PackageBuilder, which constructs its Deployment.
PackageBuilderConstruct(p, a) == ChainConstruct(p, PackageBuilderDeployment(a))

ChainInit ==
    /\ fs = InitFs
    /\ edits = 0
    /\ seed = [p \in Procs |-> "h1"]
    /\ steps = [p \in Procs |-> <<>>]
    /\ evals = <<>>
    /\ cache_dir = None
    /\ DockerIdle

ChainNext ==
    \/ \E p \in Procs, inp \in ChainInputs : ChainConstruct(p, inp)
    \/ \E p \in Procs, a \in PackageBuilderInputs : PackageBuilderConstruct(p, a)

SpecChain == ChainInit /\ [][ChainNext]_vars

\* A process constructs a Deployment of any chain and deploys it.
ChainDeployNext ==
    \/ \E inp \in ChainInputs : ChainConstruct(1, inp)
    \/ \E i \in 1..MaxChain : RestoreCache(1, i)
    \/ DeployStart(1)
    \/ DeployLoop(1)
    \/ RunLocally(1)
    \/ RunInDocker(1)
    \/ DockerLoad(1)
    \/ RunDockerBuild(1)
    \/ ScriptRemoveContainer(1)
    \/ ScriptDockerRun(1)
    \/ ScriptDockerCommit(1)
    \/ ScriptBuildStage(1)
    \/ ScriptFinally(1)
    \/ OpenCachedImage(1)
    \/ DockerSave(1)
    \/ RunReturned(1)
    \/ RunRaised(1)

SpecChainDeploy == DeployInit /\ [][ChainDeployNext]_vars

(***************************************************************************)
(* agent_build/tools/builder.py: the steps of a Builder. A step is         *)
(*   [name, kind, script_path, base_step, base_image, dependency_steps,    *)
(*    tracked_file_globs, used, base_docker_image, id]                     *)
(* with base_step and dependency_steps indices into the sequence of the    *)
(* steps (0 for no base step), kind "artifact" for an ArtifactBuilderStep  *)
(* and "environment" for an EnvironmentBuilderStep, used for a member of   *)
(* the Builder's used_steps. tracked_file_paths and id are what the step   *)
(* memoizes in _tracked_file_paths and _overall_info: <<>> and "" until    *)
(* the first evaluation, the values of the first evaluation from then on.  *)
(***************************************************************************)
UpperCase == "ABCDEFGHIJKLMNOPQRSTUVWXYZ"

LowerCase == "abcdefghijklmnopqrstuvwxyz"

\* str.lower()
RECURSIVE Lower(_)
Lower(s) ==
    IF s = "" THEN ""
    ELSE LET c == SubSeq(s, 1, 1)
             K == {k \in 1..Len(UpperCase) : SubSeq(UpperCase, k, k) = c}
         IN (IF K = {} THEN c ELSE LET k == CHOOSE k \in K : TRUE
                                   IN SubSeq(LowerCase, k, k))
            \o Lower(SubSeq(s, 2, Len(s)))

\* The .dockerignore of the source root: it is there and excludes nothing.
DockerIgnore == ".dockerignore"

\* ArtifactBuilderStep._init_tracked_file_paths and the sort that follows it:
\* the globs resolved, .dockerignore and the script added, sorted.
InitTrackedFilePaths(st, f) ==
    <<DockerIgnore>>
    \o Sorted(SetToList(UNION {Glob(st.tracked_file_globs[k], f) :
                                  k \in 1..Len(st.tracked_file_globs)}
                        \cup {st.script_path}, "h1", 1))

\* What calculate_files_checksum feeds to sha256 from the k-th file on: the
\* path and the bytes of each file.
RECURSIVE FilesChecksumInput(_, _, _)
FilesChecksumInput(paths, f, k) ==
    IF k > Len(paths) THEN ""
    ELSE paths[k] \o (IF paths[k] = DockerIgnore THEN "" ELSE f[paths[k]].data)
         \o FilesChecksumInput(paths, f, k + 1)

\* calculate_files_checksum
CalculateFilesChecksum(paths, f) == Sha256Hex(FilesChecksumInput(paths, f, 1))

RECURSIVE Join(_, _)
Join(l, k) == IF k > Len(l) THEN "" ELSE l[k] \o "," \o Join(l, k + 1)

\* ArtifactBuilderStep.overall_info_str, the JSON text of what
\* _init_overall_info collects for the step st among the steps ss, whose
\* tracked_file_paths and whose dependency and base steps' ids are evaluated.
OverallInfoStr(ss, st, f) ==
    "name:" \o st.name
    \o ";used_files:" \o Join(st.tracked_file_paths, 1)
    \o ";files_checksum:" \o CalculateFilesChecksum(st.tracked_file_paths, f)
    \o ";dependency_steps_ids:"
    \o Join([k \in 1..Len(st.dependency_steps) |-> ss[st.dependency_steps[k]].id], 1)
    \o ";base_step_id:" \o (IF st.base_step # 0 THEN ss[st.base_step].id ELSE "null")
    \o (IF st.base_docker_image # None
        THEN ";docker_image:" \o st.base_docker_image[1].name \o ","
             \o st.base_docker_image[1].architecture
        ELSE "")

\* ArtifactBuilderStep.id: lower() changes the name only, a hexdigest has no
\* upper case letter.
Id(ss, st, f) == Lower(st.name) \o "__" \o Sha256Hex(OverallInfoStr(ss, st, f))

\* read_bytes finds every file that calculate_files_checksum reads.
Readable(paths, f) ==
    \A k \in 1..Len(paths) : paths[k] = DockerIgnore \/ f[paths[k]].exists

\* One evaluation of the id of step i on the tree f: [ss, ok], the steps with
\* what the evaluation has memoized, and whether it returned (or raised, a
\* tracked file being gone). tracked_file_paths and overall_info are computed
\* only when the step holds none; overall_info evaluates the ids of the
\* dependency steps and then of the base step.
RECURSIVE EvalId(_, _, _), EvalIds(_, _, _, _)
EvalIds(ss, l, k, f) ==
    IF k > Len(l) THEN [ss |-> ss, ok |-> TRUE]
    ELSE LET r == EvalId(ss, l[k], f)
         IN IF r.ok THEN EvalIds(r.ss, l, k + 1, f) ELSE r

EvalId(ss, i, f) ==
    IF ss[i].id # "" THEN [ss |-> ss, ok |-> TRUE]
    ELSE LET tracked == IF ss[i].tracked_file_paths # <<>>
                        THEN ss[i].tracked_file_paths
                        ELSE InitTrackedFilePaths(ss[i], f)
             s1 == [ss EXCEPT ![i].tracked_file_paths = tracked]
             previous == ss[i].dependency_steps
                         \o (IF ss[i].base_step # 0 THEN <<ss[i].base_step>> ELSE <<>>)
         IN IF ~Readable(tracked, f) THEN [ss |-> s1, ok |-> FALSE]
            ELSE LET r == EvalIds(s1, previous, 1, f)
                 IN IF ~r.ok THEN r
                    ELSE [ss |-> [r.ss EXCEPT ![i].id = Id(r.ss, r.ss[i], f)],
                          ok |-> TRUE]

\* ArtifactBuilderStep.runs_in_docker
RunsInDocker(st) == st.base_docker_image # None

\* EnvironmentBuilderStep.result_image
ResultImage(st) ==
    IF RunsInDocker(st)
    THEN Some([name |-> st.id, architecture |-> st.base_docker_image[1].architecture])
    ELSE None

DockerImageSpec(name, architecture) == [name |-> name, architecture |-> architecture]

\* The arguments the steps of a Builder are constructed with.
BuilderInputs ==
    { << [name |-> "Base_Env", kind |-> "environment", script_path |-> "deploy_dev.sh",
          base_step |-> 0, base_image |-> Some(DockerImageSpec("python:3.8", "x86_64")),
          dependency_steps |-> <<>>, tracked_file_globs |-> <<"req/*.txt">>,
          used |-> FALSE],
         [name |-> "build", kind |-> "artifact", script_path |-> "deploy_build.sh",
          base_step |-> 1, base_image |-> None,
          dependency_steps |-> <<>>, tracked_file_globs |-> <<>>, used |-> TRUE] >>,
      << [name |-> "dep", kind |-> "artifact", script_path |-> "deploy_dev.sh",
          base_step |-> 0, base_image |-> None,
          dependency_steps |-> <<>>, tracked_file_globs |-> <<>>, used |-> TRUE],
         [name |-> "env", kind |-> "environment", script_path |-> "deploy_build.sh",
          base_step |-> 0, base_image |-> None,
          dependency_steps |-> <<>>, tracked_file_globs |-> <<"req/*.txt">>,
          used |-> FALSE],
         [name |-> "final", kind |-> "artifact", script_path |-> "deploy_build.sh",
          base_step |-> 2, base_image |-> None,
          dependency_steps |-> <<1>>, tracked_file_globs |-> <<"bp/*">>,
          used |-> TRUE] >>,
      << [name |-> "pkg", kind |-> "artifact", script_path |-> "deploy_build.sh",
          base_step |-> 0, base_image |-> Some(DockerImageSpec("python:3.8", "arm64")),
          dependency_steps |-> <<>>, tracked_file_globs |-> <<>>, used |-> TRUE] >> }

\* ArtifactBuilderStep.__init__ of the step that follows the steps ss: nothing
\* is memoized yet, and the base image is the result image of the base step.
NewBuilderStep(ss, a) ==
    [name |-> a.name, kind |-> a.kind, script_path |-> a.script_path,
     base_step |-> a.base_step, dependency_steps |-> a.dependency_steps,
     tracked_file_globs |-> a.tracked_file_globs, used |-> a.used,
     base_docker_image |->
         IF a.base_step = 0 THEN a.base_image ELSE ResultImage(ss[a.base_step]),
     tracked_file_paths |-> <<>>, id |-> ""]

\* The steps constructed one after the other, base and dependency steps
\* first: [ss, ok]. result_image of a base step that runs in docker evaluates
\* the id of the base step, on the tree f of the construction.
RECURSIVE MakeBuilderSteps(_, _, _, _)
MakeBuilderSteps(ss, inp, k, f) ==
    IF k > Len(inp) THEN [ss |-> ss, ok |-> TRUE]
    ELSE LET b == inp[k].base_step
             r == IF b # 0 /\ RunsInDocker(ss[b]) THEN EvalId(ss, b, f)
                  ELSE [ss |-> ss, ok |-> TRUE]
         IN IF ~r.ok THEN r
            ELSE MakeBuilderSteps(Append(r.ss, NewBuilderStep(r.ss, inp[k])),
                                  inp, k + 1, f)

\* Builder._used_steps
UsedSteps(ss) == SelectSeq([k \in 1..Len(ss) |-> k], LAMBDA k : ss[k].used)

\* ArtifactBuilderStep.output_directory, relative to the build root.
OutputDirectory(st) == "step_outputs/" \o st.id

\* ArtifactBuilderStep._temp_output_directory
TempOutputDirectory(st) == "step_outputs/~" \o st.id

\* ArtifactBuilderStep._source_root
SourceRoot(st) == "step_isolated_source_roots/" \o st.id

\* The name _run gives to the container of every step.
ContainerName == "agent-build-builder-step"

(***************************************************************************)
(* Builder.run. frame[p] is the stack of the calls of run that process p   *)
(* is in, the innermost last; a call is                                    *)
(*   [step, k, base_done, cache_exists, run_previous_steps]                *)
(* with k the dependency step that is run next. files holds the            *)
(* directories of the build root: "partial" until the script and, for an   *)
(* image, docker save have filled them.                                    *)
(***************************************************************************)
Top(p) == frame[p][Len(frame[p])]

TopStep(p) == steps[p][Top(p).step]

SetTop(p, t) == [frame EXCEPT ![p] = [@ EXCEPT ![Len(@)] = t]]

Call(i) == [step |-> i, k |-> 1, base_done |-> FALSE, cache_exists |-> FALSE,
            run_previous_steps |-> TRUE]

DirState(path) == (CHOOSE x \in files : x.path = path).state

Without(path) == {x \in files : x.path # path}

\* The steps of a Builder are constructed.
BuilderConstruct(p, inp) ==
    /\ steps[p] = <<>>
    /\ MakeBuilderSteps(<<>>, inp, 1, fs).ok
    /\ steps' = [steps EXCEPT ![p] = MakeBuilderSteps(<<>>, inp, 1, fs).ss]
    /\ frame' = [frame EXCEPT ![p] = <<>>]
    /\ UNCHANGED <<fs, edits, seed, evals, cache_dir, images, containers, files,
                   pc, cur, log, ndeploys>>

\* Builder.run is called.
BuilderRun(p) ==
    /\ pc[p] = "idle"
    /\ steps[p] # <<>>
    /\ ndeploys < MaxDeploys
    /\ ndeploys' = ndeploys + 1
    /\ cur' = [cur EXCEPT ![p] = 1]
    /\ pc' = [pc EXCEPT ![p] = "builder_loop"]
    /\ log' = Append(log, Event("deploy", 0, ""))
    /\ UNCHANGED <<fs, edits, seed, steps, evals, cache_dir, images, containers,
                   files, frame>>

\* One round of "for s in self._used_steps": s.run is called, or the loop is
\* over and Builder.run returns.
BuilderLoop(p) ==
    /\ pc[p] = "builder_loop"
    /\ IF cur[p] > Len(UsedSteps(steps[p]))
       THEN /\ pc' = [pc EXCEPT ![p] = "idle"]
            /\ log' = Append(log, Event("ok", 0, ""))
            /\ frame' = frame
       ELSE /\ pc' = [pc EXCEPT ![p] = "run"]
            /\ frame' = [frame EXCEPT ![p] = <<Call(UsedSteps(steps[p])[cur[p]])>>]
            /\ log' = log
    /\ UNCHANGED <<fs, edits, seed, steps, evals, cache_dir, images, containers,
                   files, cur, ndeploys>>

\* A run that never finds the output directory.
CacheExistsNever(st) == FALSE

\* self.output_directory.is_dir() at the start of run.
CacheExists(st) == OutputDirectory(st) \in FilePaths

\* ArtifactBuilderStep.run and EnvironmentBuilderStep.run up to _run: the
\* first use of self.id, the look at the output directory, and the temporary
\* directory made anew.
StepRun(p) ==
    /\ pc[p] = "run"
    /\ LET r == EvalId(steps[p], Top(p).step, fs)
           st == r.ss[Top(p).step]
           cache_exists == CacheExists(st)
           temp == TempOutputDirectory(st)
       IN /\ log' = Append(log, Event("run", Top(p).step, ""))
          /\ steps' = [steps EXCEPT ![p] = r.ss]
          /\ IF ~r.ok
             THEN /\ pc' = [pc EXCEPT ![p] = "raised"]
                  /\ UNCHANGED <<files, frame>>
             ELSE IF st.kind = "artifact"
             THEN IF cache_exists
                  THEN /\ pc' = [pc EXCEPT ![p] = "return"]
                       /\ UNCHANGED <<files, frame>>
                  ELSE /\ pc' = [pc EXCEPT ![p] = "previous"]
                       /\ files' = Without(temp) \cup {[path |-> temp, state |-> "partial"]}
                       /\ frame' = frame
             ELSE IF cache_exists /\ RunsInDocker(st)
                  THEN /\ pc' = [pc EXCEPT ![p] = "load_image"]
                       /\ UNCHANGED <<files, frame>>
                  ELSE /\ pc' = [pc EXCEPT ![p] = "previous"]
                       /\ files' = Without(temp) \cup
                              {[path |-> temp,
                                state |-> IF cache_exists
                                          THEN DirState(OutputDirectory(st))
                                          ELSE "partial"]}
                       /\ frame' = SetTop(p, [Top(p) EXCEPT
                                                 !.cache_exists = cache_exists,
                                                 !.run_previous_steps = ~cache_exists])
    /\ UNCHANGED <<fs, edits, seed, evals, cache_dir, images, containers,
                   cur, ndeploys>>

\* DockerImageSpec.load_image: nothing when the image is in the registry,
\* else docker load -i of the file that has the name of the image.
LoadImage(p) ==
    /\ pc[p] = "load_image"
    /\ LET name == ResultImage(TopStep(p))[1].name
       IN IF name \in images
          THEN /\ pc' = [pc EXCEPT ![p] = "return"]
               /\ images' = images
               /\ log' = log
          ELSE /\ log' = Append(log, Event("load", Top(p).step, ""))
               /\ IF [path |-> name, state |-> "complete"] \in files
                  THEN /\ images' = images \cup {name}
                       /\ pc' = [pc EXCEPT ![p] = "return"]
                  ELSE /\ images' = images
                       /\ pc' = [pc EXCEPT ![p] = "raised"]
    /\ UNCHANGED <<fs, edits, seed, steps, evals, cache_dir, containers, files,
                   cur, frame, ndeploys>>

\* _run, "for step in self._dependency_steps": the next dependency step is run.
RunDependencyStep(p) ==
    /\ pc[p] = "previous"
    /\ Top(p).run_previous_steps
    /\ Top(p).k <= Len(TopStep(p).dependency_steps)
    /\ frame' = [frame EXCEPT ![p] =
                    Append(SetTop(p, [Top(p) EXCEPT !.k = @ + 1])[p],
                           Call(TopStep(p).dependency_steps[Top(p).k]))]
    /\ pc' = [pc EXCEPT ![p] = "run"]
    /\ UNCHANGED <<fs, edits, seed, steps, evals, cache_dir, images, containers,
                   files, cur, log, ndeploys>>

\* A _run that runs the base step whether or not the dependency steps have
\* been run.
RunBaseStepEarly(p) ==
    /\ pc[p] = "previous"
    /\ Top(p).run_previous_steps
    /\ TopStep(p).base_step # 0
    /\ ~Top(p).base_done
    /\ frame' = [frame EXCEPT ![p] =
                    Append(SetTop(p, [Top(p) EXCEPT !.base_done = TRUE])[p],
                           Call(TopStep(p).base_step))]
    /\ pc' = [pc EXCEPT ![p] = "run"]
    /\ UNCHANGED <<fs, edits, seed, steps, evals, cache_dir, images, containers,
                   files, cur, log, ndeploys>>

\* _run, "if self._base_step": the base step is run after the dependency steps.
RunBaseStep(p) ==
    /\ pc[p] = "previous"
    /\ Top(p).run_previous_steps
    /\ Top(p).k > Len(TopStep(p).dependency_steps)
    /\ TopStep(p).base_step # 0
    /\ ~Top(p).base_done
    /\ frame' = [frame EXCEPT ![p] =
                    Append(SetTop(p, [Top(p) EXCEPT !.base_done = TRUE])[p],
                           Call(TopStep(p).base_step))]
    /\ pc' = [pc EXCEPT ![p] = "run"]
    /\ UNCHANGED <<fs, edits, seed, steps, evals, cache_dir, images, containers,
                   files, cur, log, ndeploys>>

\* _run after the previous steps: step_info.txt is written into the temporary
\* output directory, which fails when the directory is not there, and the
\* isolated source root is made anew.
PrepareWorkingSourceRoot(p) ==
    /\ pc[p] = "previous"
    /\ Top(p).run_previous_steps =>
          /\ Top(p).k > Len(TopStep(p).dependency_steps)
          /\ TopStep(p).base_step # 0 => Top(p).base_done
    /\ IF TempOutputDirectory(TopStep(p)) \notin FilePaths
       THEN /\ files' = files
            /\ pc' = [pc EXCEPT ![p] = "raised"]
       ELSE /\ files' = Without(SourceRoot(TopStep(p)))
                           \cup {[path |-> SourceRoot(TopStep(p)), state |-> "complete"]}
            /\ pc' = [pc EXCEPT ![p] = IF RunsInDocker(TopStep(p))
                                       THEN "rm" ELSE "locally"]
    /\ UNCHANGED <<fs, edits, seed, steps, evals, cache_dir, images, containers,
                   cur, frame, log, ndeploys>>

\* ArtifactBuilderStep._run_locally: the script runs on the host and fills
\* the temporary output directory.
BuilderRunLocally(p) ==
    /\ pc[p] = "locally"
    /\ log' = Append(log, Event("exec", Top(p).step, "script"))
    /\ \/ /\ files' = Without(TempOutputDirectory(TopStep(p)))
                         \cup {[path |-> TempOutputDirectory(TopStep(p)),
                                state |-> "complete"]}
          /\ pc' = [pc EXCEPT ![p] = "finish"]
       \/ /\ files' = files
          /\ pc' = [pc EXCEPT ![p] = "raised"]
    /\ UNCHANGED <<fs, edits, seed, steps, evals, cache_dir, images, containers,
                   cur, frame, ndeploys>>

\* _run_in_docker: docker rm -f container_name before the run.
BuilderRemoveContainer(p) ==
    /\ pc[p] = "rm"
    /\ containers' = containers \ {ContainerName}
    /\ pc' = [pc EXCEPT ![p] = "docker_run"]
    /\ UNCHANGED <<fs, edits, seed, steps, evals, cache_dir, images, files, cur,
                   frame, log, ndeploys>>

\* _run_in_docker: docker run -i --name container_name. docker refuses a
\* name that a container has already; else the container is there once docker
\* has created it, whatever the script exits with. docker makes the host
\* directory of a volume when it is not there.
BuilderDockerRun(p) ==
    /\ pc[p] = "docker_run"
    /\ log' = Append(log, Event("exec", Top(p).step, "docker_run"))
    /\ \/ /\ containers' = containers
          /\ files' = files
          /\ pc' = [pc EXCEPT ![p] = "raised"]
       \/ /\ ContainerName \notin containers
          /\ containers' = containers \cup {ContainerName}
          /\ files' = files
          /\ pc' = [pc EXCEPT ![p] = "raised"]
       \/ /\ ContainerName \notin containers
          /\ containers' = containers \cup {ContainerName}
          /\ files' = IF TopStep(p).kind = "artifact"
                      THEN Without(TempOutputDirectory(TopStep(p)))
                              \cup {[path |-> TempOutputDirectory(TopStep(p)),
                                     state |-> "complete"]}
                      ELSE files
          /\ pc' = [pc EXCEPT ![p] = IF TopStep(p).kind = "artifact"
                                     THEN "rm_after" ELSE "docker_commit"]
    /\ UNCHANGED <<fs, edits, seed, steps, evals, cache_dir, images, cur, frame,
                   ndeploys>>

\* EnvironmentBuilderStep._run_in_docker: docker commit of the container
\* that has the name, under the name of the result image.
BuilderDockerCommit(p) ==
    /\ pc[p] = "docker_commit"
    /\ \/ /\ ContainerName \in containers
          /\ images' = images \cup {ResultImage(TopStep(p))[1].name}
          /\ pc' = [pc EXCEPT ![p] = "save_image"]
       \/ /\ images' = images
          /\ pc' = [pc EXCEPT ![p] = "raised"]
    /\ UNCHANGED <<fs, edits, seed, steps, evals, cache_dir, containers, files,
                   cur, frame, log, ndeploys>>

\* DockerImageSpec.save_image into the temporary output directory: the file
\* cannot be opened when the directory is not there.
SaveImage(p) ==
    /\ pc[p] = "save_image"
    /\ \/ /\ TempOutputDirectory(TopStep(p)) \in FilePaths
          /\ files' = Without(TempOutputDirectory(TopStep(p)))
                         \cup {[path |-> TempOutputDirectory(TopStep(p)),
                                state |-> "complete"]}
          /\ pc' = [pc EXCEPT ![p] = "rm_after"]
       \/ /\ files' = files
          /\ pc' = [pc EXCEPT ![p] = "raised"]
    /\ UNCHANGED <<fs, edits, seed, steps, evals, cache_dir, images, containers,
                   cur, frame, log, ndeploys>>

\* _run: docker rm -f container_name, the statement after _run_in_docker
\* inside the try block.
BuilderRemoveContainerAfter(p) ==
    /\ pc[p] = "rm_after"
    /\ containers' = containers \ {ContainerName}
    /\ pc' = [pc EXCEPT ![p] = "finish"]
    /\ UNCHANGED <<fs, edits, seed, steps, evals, cache_dir, images, files, cur,
                   frame, log, ndeploys>>

\* run after _run: the temporary directory is renamed to the output
\* directory, or removed when an EnvironmentBuilderStep had found its cache.
\* rmtree and rename fail on a temporary directory that is not there, rename
\* on an output directory that is there.
StepFinish(p) ==
    /\ pc[p] = "finish"
    /\ LET st == TopStep(p)
           temp == TempOutputDirectory(st)
           out == OutputDirectory(st)
       IN IF temp \notin FilePaths
          THEN /\ files' = files
               /\ pc' = [pc EXCEPT ![p] = "raised"]
          ELSE IF Top(p).cache_exists
          THEN /\ files' = Without(temp)
               /\ pc' = [pc EXCEPT ![p] = "return"]
          ELSE IF out \in FilePaths
          THEN /\ files' = files
               /\ pc' = [pc EXCEPT ![p] = "raised"]
          ELSE /\ files' = Without(temp) \cup {[path |-> out, state |-> DirState(temp)]}
               /\ pc' = [pc EXCEPT ![p] = "return"]
    /\ UNCHANGED <<fs, edits, seed, steps, evals, cache_dir, images, containers,
                   cur, frame, log, ndeploys>>

\* run returns: to the _run of the step that called it, or to Builder.run.
StepReturn(p) ==
    /\ pc[p] = "return"
    /\ log' = Append(log, Event("ret", Top(p).step, ""))
    /\ frame' = [frame EXCEPT ![p] = SubSeq(@, 1, Len(@) - 1)]
    /\ IF Len(frame[p]) = 1
       THEN /\ pc' = [pc EXCEPT ![p] = "builder_loop"]
            /\ cur' = [cur EXCEPT ![p] = @ + 1]
       ELSE /\ pc' = [pc EXCEPT ![p] = "previous"]
            /\ cur' = cur
    /\ UNCHANGED <<fs, edits, seed, steps, evals, cache_dir, images, containers,
                   files, ndeploys>>

\* An exception: the except clause of _run logs and raises again, no run
\* on the stack and not Builder.run handles it.
StepRaised(p) ==
    /\ pc[p] = "raised"
    /\ log' = log \o <<Event("raise", Top(p).step, ""), Event("failed", 0, "")>>
    /\ frame' = [frame EXCEPT ![p] = <<>>]
    /\ pc' = [pc EXCEPT ![p] = "idle"]
    /\ UNCHANGED <<fs, edits, seed, steps, evals, cache_dir, images, containers,
                   files, cur, ndeploys>>

BuilderInit ==
    /\ fs = InitFs
    /\ edits = 0
    /\ seed = [p \in Procs |-> "h1"]
    /\ steps = [p \in Procs |-> <<>>]
    /\ evals = <<>>
    /\ cache_dir = None
    /\ DockerIdle

BuilderNext ==
    \/ \E inp \in BuilderInputs : BuilderConstruct(1, inp)
    \/ BuilderRun(1)
    \/ BuilderLoop(1)
    \/ StepRun(1)
    \/ LoadImage(1)
    \/ RunDependencyStep(1)
    \/ RunBaseStep(1)
    \/ PrepareWorkingSourceRoot(1)
    \/ BuilderRunLocally(1)
    \/ BuilderRemoveContainer(1)
    \/ BuilderDockerRun(1)
    \/ BuilderDockerCommit(1)
    \/ SaveImage(1)
    \/ BuilderRemoveContainerAfter(1)
    \/ StepFinish(1)
    \/ StepReturn(1)
    \/ StepRaised(1)

SpecBuilder == BuilderInit /\ [][BuilderNext]_vars

\* Builders whose used steps share a step: an EnvironmentBuilderStep on the
\* host as the base step and an ArtifactBuilderStep as a dependency step of
\* two used steps, and an EnvironmentBuilderStep in docker as the base step
\* of two used steps.
SharedStepInputs ==
    { << [name |-> "env", kind |-> "environment", script_path |-> "deploy_dev.sh",
          base_step |-> 0, base_image |-> None,
          dependency_steps |-> <<>>, tracked_file_globs |-> <<"req/*.txt">>,
          used |-> FALSE],
         [name |-> "lib", kind |-> "artifact", script_path |-> "deploy_dev.sh",
          base_step |-> 0, base_image |-> None,
          dependency_steps |-> <<>>, tracked_file_globs |-> <<>>, used |-> FALSE],
         [name |-> "a", kind |-> "artifact", script_path |-> "deploy_build.sh",
          base_step |-> 1, base_image |-> None,
          dependency_steps |-> <<2>>, tracked_file_globs |-> <<>>, used |-> TRUE],
         [name |-> "b", kind |-> "artifact", script_path |-> "deploy_build.sh",
          base_step |-> 1, base_image |-> None,
          dependency_steps |-> <<2>>, tracked_file_globs |-> <<"bp/*">>,
          used |-> TRUE] >>,
      << [name |-> "Base_Env", kind |-> "environment", script_path |-> "deploy_dev.sh",
          base_step |-> 0, base_image |-> Some(DockerImageSpec("python:3.8", "x86_64")),
          dependency_steps |-> <<>>, tracked_file_globs |-> <<"req/*.txt">>,
          used |-> FALSE],
         [name |-> "a", kind |-> "artifact", script_path |-> "deploy_build.sh",
          base_step |-> 1, base_image |-> None,
          dependency_steps |-> <<>>, tracked_file_globs |-> <<>>, used |-> TRUE],
         [name |-> "b", kind |-> "artifact", script_path |-> "deploy_build.sh",
          base_step |-> 1, base_image |-> None,
          dependency_steps |-> <<>>, tracked_file_globs |-> <<"bp/*">>,
          used |-> TRUE] >> }

\* Builder.run of a Builder of any of these step graphs.
SharedStepsNext ==
    \/ \E inp \in SharedStepInputs : BuilderConstruct(1, inp)
    \/ BuilderNext

SpecSharedSteps == BuilderInit /\ [][SharedStepsNext]_vars

\* The Builders a second process runs beside the first: those of one step.
SecondBuilderInputs == {inp \in BuilderInputs : Len(inp) = 1}

\* Two processes, each with a Builder of its own, on one build root and one
\* docker daemon.
BuildersNext ==
    \E p \in Procs :
        \/ \E inp \in IF p = 1 THEN BuilderInputs ELSE SecondBuilderInputs :
              BuilderConstruct(p, inp)
        \/ BuilderRun(p)
        \/ BuilderLoop(p)
        \/ StepRun(p)
        \/ LoadImage(p)
        \/ RunDependencyStep(p)
        \/ RunBaseStep(p)
        \/ PrepareWorkingSourceRoot(p)
        \/ BuilderRunLocally(p)
        \/ BuilderRemoveContainer(p)
        \/ BuilderDockerRun(p)
        \/ BuilderDockerCommit(p)
        \/ SaveImage(p)
        \/ BuilderRemoveContainerAfter(p)
        \/ StepFinish(p)
        \/ StepReturn(p)
        \/ StepRaised(p)

SpecBuilders == BuilderInit /\ [][BuildersNext]_vars

(***************************************************************************)
(* The ids of the steps of a Builder while the source tree changes.        *)
(***************************************************************************)
\* [s.id for s in the steps from i on], each evaluation on the steps as the
\* one before it left them: [ss, id], with id[i] None when s.id raised.
RECURSIVE AllIds(_, _, _)
AllIds(ss, i, f) ==
    IF i > Len(ss) THEN [ss |-> ss, id |-> <<>>]
    ELSE LET r == EvalId(ss, i, f)
             rest == AllIds(r.ss, i + 1, f)
         IN [ss |-> rest.ss,
             id |-> <<IF r.ok THEN Some(r.ss[i].id) ELSE None>> \o rest.id]

\* One evaluation, by process p, of the id of every step it has constructed.
\* The last two evaluations are kept, each with the process that made it,
\* the tree it was made on, and for each step whether it held no overall_info
\* before.
EvaluateId(p) ==
    /\ steps[p] # <<>>
    /\ LET r == AllIds(steps[p], 1, fs)
           e == [proc |-> p, fs |-> fs, id |-> r.id,
                 fresh |-> [i \in 1..Len(steps[p]) |-> steps[p][i].id = ""]]
       IN /\ steps' = [steps EXCEPT ![p] = r.ss]
          /\ evals' = IF Len(evals) < 2 THEN Append(evals, e) ELSE <<evals[2], e>>
    /\ UNCHANGED <<fs, edits, seed>>
    /\ UNCHANGED dockerVars

IdInit ==
    /\ fs = InitFs
    /\ edits = 0
    /\ seed = [p \in Procs |-> "h1"]
    /\ steps = [p \in Procs |-> <<>>]
    /\ evals = <<>>
    /\ cache_dir = None
    /\ DockerIdle

IdNext ==
    \/ \E p \in Procs, inp \in BuilderInputs : BuilderConstruct(p, inp)
    \/ \E p \in Procs : EvaluateId(p)
    \/ \E p \in Paths, d \in Datas : WriteFile(p, d)
    \/ \E p \in Paths, m \in Modes : Chmod(p, m)
    \/ \E p \in Paths : Unlink(p)
    \/ \E p \in Paths, d \in Datas : CreateFile(p, d)

SpecId == IdInit /\ [][IdNext]_vars

(***************************************************************************)
(* agent_tools/environment_deployers.py: an EnvironmentDeployer is         *)
(*   [name, deployment_script_path, used_files, used_files_checksum]       *)
(* with used_files_checksum what _used_files_checksum memoizes, "" until   *)
(* the first evaluation that returns. steps[p] holds the one deployer of   *)
(* process p.                                                              *)
(***************************************************************************)
\* The directories of the source tree, each with the glob of its files.
Dirs == {"bp", "req"}

DirGlob(d) == IF d = "bp" THEN "bp/*" ELSE "req/*.txt"

\* The orders in which iterdir may yield the files of a directory.
IterOrders == {"h1", "h2"}

\* get_dir_files: the files of a directory in the order iterdir yields them.
GetDirFiles(d, f, ord) == SetToList(Glob(DirGlob(d), f), ord, 1)

\* EnvironmentDeployer._get_used_files from the k-th used file on.
RECURSIVE GetUsedFilesFrom(_, _, _, _)
GetUsedFilesFrom(used_files, k, f, ord) ==
    IF k > Len(used_files) THEN <<>>
    ELSE (IF used_files[k] \in Dirs THEN GetDirFiles(used_files[k], f, ord)
          ELSE <<used_files[k]>>)
         \o GetUsedFilesFrom(used_files, k + 1, f, ord)

\* EnvironmentDeployer._get_used_files
GetUsedFiles(d, f, ord) ==
    <<d.deployment_script_path>> \o GetUsedFilesFrom(d.used_files, 1, f, ord)

\* What get_used_files_checksum feeds to sha256 from the k-th file on.
RECURSIVE DeployerFilesInput(_, _, _)
DeployerFilesInput(paths, f, k) ==
    IF k > Len(paths) THEN ""
    ELSE paths[k] \o Str(f[paths[k]].mode) \o f[paths[k]].data
         \o DeployerFilesInput(paths, f, k + 1)

\* EnvironmentDeployer.get_used_files_checksum: [d, value], the deployer after
\* the call and the value returned, None when stat() raised.
UsedFilesChecksum(d, f, ord) ==
    IF d.used_files_checksum # "" THEN [d |-> d, value |-> Some(d.used_files_checksum)]
    ELSE LET paths == GetUsedFiles(d, f, ord)
         IN IF \E k \in 1..Len(paths) : ~f[paths[k]].exists
            THEN [d |-> d, value |-> None]
            ELSE LET c == Sha256Hex(DeployerFilesInput(paths, f, 1))
                 IN [d |-> [d EXCEPT !.used_files_checksum = c], value |-> Some(c)]

\* The arguments an EnvironmentDeployer is constructed with.
DeployerInputs ==
    { [name |-> "base", deployment_script_path |-> "deploy_build.sh",
       used_files |-> <<"bp/Dockerfile", "req">>],
      [name |-> "base", deployment_script_path |-> "deploy_build.sh",
       used_files |-> <<"req", "bp/Dockerfile">>],
      [name |-> "test", deployment_script_path |-> "deploy_dev.sh",
       used_files |-> <<"req/main.txt">>] }

\* EnvironmentDeployer.__init__
DeployerConstruct(p, inp) ==
    /\ steps[p] = <<>>
    /\ steps' = [steps EXCEPT ![p] =
                    <<[name |-> inp.name,
                       deployment_script_path |-> inp.deployment_script_path,
                       used_files |-> inp.used_files,
                       used_files_checksum |-> ""]>>]
    /\ UNCHANGED <<fs, edits, seed, evals>>
    /\ UNCHANGED dockerVars

\* One call, by process p, of get_used_files_checksum of its deployer, with
\* iterdir yielding in the order ord. The last two calls are kept, each with
\* the process, the tree, and whether the deployer held no checksum before.
GetUsedFilesChecksum(p, ord) ==
    /\ steps[p] # <<>>
    /\ LET r == UsedFilesChecksum(steps[p][1], fs, ord)
           e == [proc |-> p, fs |-> fs, checksum |-> r.value,
                 fresh |-> steps[p][1].used_files_checksum = ""]
       IN /\ steps' = [steps EXCEPT ![p] = <<r.d>>]
          /\ evals' = IF Len(evals) < 2 THEN Append(evals, e) ELSE <<evals[2], e>>
    /\ UNCHANGED <<fs, edits, seed>>
    /\ UNCHANGED dockerVars

DeployerInit ==
    /\ fs = InitFs
    /\ edits = 0
    /\ seed = [p \in Procs |-> "h1"]
    /\ steps = [p \in Procs |-> <<>>]
    /\ evals = <<>>
    /\ cache_dir = None
    /\ DockerIdle

DeployerNext ==
    \/ \E p \in Procs, inp \in DeployerInputs : DeployerConstruct(p, inp)
    \/ \E p \in Procs, ord \in IterOrders : GetUsedFilesChecksum(p, ord)
    \/ \E p \in Paths, d \in Datas : WriteFile(p, d)
    \/ \E p \in Paths, m \in Modes : Chmod(p, m)
    \/ \E p \in Paths : Unlink(p)
    \/ \E p \in Paths, d \in Datas : CreateFile(p, d)

SpecDeployer == DeployerInit /\ [][DeployerNext]_vars

(***************************************************************************)
(* Properties of the cache keys (SpecKey).                                 *)
(***************************************************************************)
\* The steps a step builds on, itself included.
RECURSIVE Chain(_, _)
Chain(ss, i) ==
    IF ss[i].previous_step = 0 THEN {i} ELSE {i} \cup Chain(ss, ss[i].previous_step)

\* The paths tracked by a step or by one of the steps before it.
TrackedUpTo(ss, i) == UNION {Range(ss[k].used_files) : k \in Chain(ss, i)}

\* Two steps of the same kind and architecture with the same tracked paths,
\* on top of the same initial image and of predecessors that agree likewise.
RECURSIVE SameStep(_, _, _, _)
SameStep(ss, i, tt, j) ==
    /\ ss[i].cls = tt[j].cls
    /\ ss[i].architecture = tt[j].architecture
    /\ Range(ss[i].used_files) = Range(tt[j].used_files)
    /\ (ss[i].previous_step = 0) = (tt[j].previous_step = 0)
    /\ IF ss[i].previous_step = 0 \/ tt[j].previous_step = 0
       THEN ss[i].base_docker_image = tt[j].base_docker_image
       ELSE SameStep(ss, ss[i].previous_step, tt, tt[j].previous_step)

\* The two trees differ in the bytes of file p and in nothing else.
OnlyDataDiffers(f, g, p) ==
    /\ f[p].exists /\ g[p].exists
    /\ f[p].data # g[p].data
    /\ f[p].mode = g[p].mode
    /\ \A q \in Paths \ {p} : f[q] = g[q]

\* Two evaluations made by one process, one after the other.
TwoEvals == Len(evals) = 2 /\ evals[1].proc = evals[2].proc

\* C1: two steps with the same kind, architecture, predecessor chain, initial
\* base image and tracked paths, evaluated on the same tree (by one process
\* or by two), have the same cache key; so has one step evaluated twice.
C1_SameInputsSameKey ==
    \A a \in 1..Len(evals), b \in 1..Len(evals) :
        LET ss == steps[evals[a].proc]
            tt == steps[evals[b].proc]
        IN evals[a].fs = evals[b].fs =>
            \A i \in 1..Len(ss), j \in 1..Len(tt) :
                SameStep(ss, i, tt, j) =>
                    /\ evals[a].cache_key[i] = evals[b].cache_key[j]
                    /\ evals[a].checksum[i] = evals[b].checksum[j]

\* Two processes with different hash seeds have evaluated, on one tree, a
\* step with two tracked files and a predecessor.
C1_Witness ==
    /\ Len(evals) = 2
    /\ evals[1].proc # evals[2].proc
    /\ seed[1] # seed[2]
    /\ evals[1].fs = evals[2].fs
    /\ Len(steps[1]) >= 2 /\ Len(steps[2]) >= 2
    /\ SameStep(steps[1], 2, steps[2], 2)
    /\ Len(steps[1][2].used_files) >= 2

\* C3: a change of the bytes of a file tracked by step i changes the checksum
\* and the cache key of every later step of the chain.
C3_ChangePropagatesForward ==
    TwoEvals =>
        LET ss == steps[evals[1].proc]
        IN \A i \in 1..Len(ss), j \in 1..Len(ss), p \in Paths :
            (/\ j > i
             /\ p \in Range(ss[i].used_files)
             /\ OnlyDataDiffers(evals[1].fs, evals[2].fs, p))
            => /\ evals[1].checksum[j] # evals[2].checksum[j]
               /\ evals[1].cache_key[j] # evals[2].cache_key[j]

\* The file of the first step of a three-step chain has changed between two
\* evaluations, and the third step does not track it.
C3_Witness ==
    /\ TwoEvals
    /\ Len(steps[evals[1].proc]) = 3
    /\ \E p \in Range(steps[evals[1].proc][1].used_files) :
          /\ OnlyDataDiffers(evals[1].fs, evals[2].fs, p)
          /\ p \notin Range(steps[evals[1].proc][3].used_files)

\* C4: a change of the bytes of a file tracked by a step, between two
\* evaluations of the step's checksum, changes the checksum.
C4_OwnChangeChangesChecksum ==
    TwoEvals =>
        LET ss == steps[evals[1].proc]
        IN \A i \in 1..Len(ss), p \in Paths :
            (/\ p \in Range(ss[i].used_files)
             /\ OnlyDataDiffers(evals[1].fs, evals[2].fs, p))
            => evals[1].checksum[i] # evals[2].checksum[i]

\* A tracked file of a step has changed between two evaluations.
C4_Witness ==
    /\ TwoEvals
    /\ \E i \in 1..Len(steps[evals[1].proc]) :
          \E p \in Range(steps[evals[1].proc][i].used_files) :
              OnlyDataDiffers(evals[1].fs, evals[2].fs, p)

\* C5: a change confined to files that neither the step nor a step before it
\* tracks leaves the step's checksum and cache key as they were.
C5_UntrackedChangeIgnored ==
    TwoEvals =>
        LET ss == steps[evals[1].proc]
        IN \A i \in 1..Len(ss) :
            (\A p \in TrackedUpTo(ss, i) : evals[1].fs[p] = evals[2].fs[p])
            => /\ evals[1].checksum[i] = evals[2].checksum[i]
               /\ evals[1].cache_key[i] = evals[2].cache_key[i]

\* A file tracked only by the last step has changed between two evaluations
\* of a chain with a step before it.
C5_Witness ==
    /\ TwoEvals
    /\ LET ss == steps[evals[1].proc]
       IN /\ Len(ss) >= 2
          /\ \E p \in Range(ss[Len(ss)].used_files) \ TrackedUpTo(ss, Len(ss) - 1) :
                OnlyDataDiffers(evals[1].fs, evals[2].fs, p)

\* C11: get-deployment-all-cache-names prints a JSON array with one entry for
\* each step, entry k (from 0) being the cache key of step n-1-k of the n steps.
C11_CacheNamesReversed ==
    \A e \in Range(evals) :
        LET n == Len(e.cache_key)
        IN e.printed = JsonDumps([k \in 1..n |-> e.cache_key[n + 1 - k]])

\* The command has run for a chain of three steps with three different keys.
C11_Witness ==
    \E e \in Range(evals) :
        /\ Len(e.cache_key) = 3
        /\ Cardinality(Range(e.cache_key)) = 3

\* C12 as claimed: no step is constructed without a file its class lists by
\* path, and no checksum is returned while a tracked file of the step is
\* missing: both raise.
C12_MissingFileRaises ==
    /\ \A p \in Procs : \A i \in 1..Len(steps[p]) :
          OWN_PATH(steps[p][i].cls) \in Range(steps[p][i].used_files)
    /\ \A e \in Range(evals) : \A i \in 1..Len(steps[e.proc]) :
          \A q \in Range(steps[e.proc][i].used_files) : e.fs[q].exists

\* C13 as claimed: when a file that matches a glob of the step's class has
\* been created or deleted between two evaluations of the step's checksum, and
\* nothing else has changed, the checksum has changed.
C13_GlobExpandedAtChecksum ==
    TwoEvals =>
        LET ss == steps[evals[1].proc]
        IN \A i \in 1..Len(ss), q \in Paths :
            (/\ \E k \in 1..Len(USED_FILES(ss[i].cls)) :
                    q \in Matches(USED_FILES(ss[i].cls)[k])
             /\ evals[1].fs[q].exists # evals[2].fs[q].exists
             /\ \A r \in Paths \ {q} : evals[1].fs[r] = evals[2].fs[r])
            => evals[1].checksum[i] # evals[2].checksum[i]

(***************************************************************************)
(* Properties of what is hashed (SpecHash).                                *)
(***************************************************************************)
\* C24 as claimed: when a process evaluates the checksums of its steps on
\* two trees and a file that step i tracks is not the same on both (there or
\* not, mode, content), or the checksum of the step before differs, sha256
\* is fed different bytes for step i: its checksums differ.
C24_HashInputInjective ==
    TwoEvals =>
        LET ss == steps[evals[1].proc]
        IN \A i \in 1..Len(ss) :
            (\/ \E q \in Range(ss[i].used_files) : evals[1].fs[q] # evals[2].fs[q]
             \/ /\ ss[i].previous_step # 0
                /\ evals[1].checksum[ss[i].previous_step]
                       # evals[2].checksum[ss[i].previous_step])
            => evals[1].checksum[i] # evals[2].checksum[i]

(***************************************************************************)
(* Properties of the ids of the builder steps (SpecId).                    *)
(***************************************************************************)
\* The two trees differ in the mode of file q and in nothing else.
OnlyModeDiffers(f, g, q) ==
    /\ f[q].exists /\ g[q].exists
    /\ f[q].mode # g[q].mode
    /\ f[q].data = g[q].data
    /\ \A r \in Paths \ {q} : f[r] = g[r]

\* C14 as claimed: two step objects made from the same arguments, each with
\* its id computed for the first time, on two trees that differ only in the
\* mode of a file both track, have different ids.
C14_ModeChangesId ==
    \A a \in 1..Len(evals), b \in 1..Len(evals) :
        LET ss == steps[evals[a].proc]
            tt == steps[evals[b].proc]
        IN \A i \in 1..Len(evals[a].id), j \in 1..Len(evals[b].id), q \in Paths :
            (/\ evals[a].fresh[i] /\ evals[b].fresh[j]
             /\ evals[a].id[i] # None /\ evals[b].id[j] # None
             /\ ss[i].name = tt[j].name
             /\ q \in Range(ss[i].tracked_file_paths)
             /\ q \in Range(tt[j].tracked_file_paths)
             /\ OnlyModeDiffers(evals[a].fs, evals[b].fs, q))
            => evals[a].id[i] # evals[b].id[j]

(***************************************************************************)
(* Properties of the checksum of a deployer (SpecDeployer).                *)
(***************************************************************************)
\* C15 as claimed: two deployers with the same name, script and set of used
\* files, each computing its checksum for the first time, on the same tree,
\* get the same checksum, in whatever order the used files are listed and
\* iterdir yields the files of a directory.
C15_OrderIndependent ==
    \A a \in 1..Len(evals), b \in 1..Len(evals) :
        LET d == steps[evals[a].proc][1]
            e == steps[evals[b].proc][1]
        IN (/\ evals[a].fresh /\ evals[b].fresh
            /\ evals[a].checksum # None /\ evals[b].checksum # None
            /\ evals[a].fs = evals[b].fs
            /\ d.name = e.name
            /\ d.deployment_script_path = e.deployment_script_path
            /\ Range(d.used_files) = Range(e.used_files))
           => evals[a].checksum = evals[b].checksum

(***************************************************************************)
(* Properties of the values a step or a deployer keeps (SpecId,            *)
(* SpecDeployer).                                                          *)
(***************************************************************************)
\* C20 as claimed, for ArtifactBuilderStep.id: when one process evaluates the
\* ids of its steps twice and the data of a file a step tracks was changed in
\* between, and nothing else, the second id of that step is not the first.
C20_IdReflectsCurrentFiles ==
    TwoEvals =>
        LET ss == steps[evals[2].proc]
        IN \A i \in 1..Len(evals[2].id), q \in Paths :
            (/\ evals[1].id[i] # None /\ evals[2].id[i] # None
             /\ q \in Range(ss[i].tracked_file_paths)
             /\ OnlyDataDiffers(evals[1].fs, evals[2].fs, q))
            => evals[1].id[i] # evals[2].id[i]

\* The same for EnvironmentDeployer.get_used_files_checksum: two calls by one
\* process, the data of a used file changed in between.
C20_ChecksumReflectsCurrentFiles ==
    TwoEvals =>
        \A q \in Paths :
            (/\ evals[1].checksum # None /\ evals[2].checksum # None
             /\ q \in Range(GetUsedFiles(steps[evals[2].proc][1], evals[2].fs, "h1"))
             /\ OnlyDataDiffers(evals[1].fs, evals[2].fs, q))
            => evals[1].checksum # evals[2].checksum

(***************************************************************************)
(* Properties of deploy (SpecDeploy).                                      *)
(***************************************************************************)
\* The position in the log of the last event ev at or before position k, 0
\* if there is none.
LastBefore(ev, k) ==
    LET S == {j \in 1..k : log[j].ev = ev}
    IN IF S = {} THEN 0 ELSE CHOOSE j \in S : \A m \in S : m <= j

\* Positions k and m of the log belong to the same call of deploy.
SameDeploy(k, m) == LastBefore("deploy", k) = LastBefore("deploy", m)

\* The run that process p is in, or has just left, has called its executor
\* (the script, docker build or docker run), or docker load.
Called(ev) ==
    \E k \in 1..Len(log) : k > LastBefore("run", Len(log)) /\ log[k].ev = ev

\* The process is at the end of a run that went through run_in_docker.
EndOfDockerRun(p) ==
    /\ pc[p] \in {"returned", "raised"}
    /\ InDocker(steps[p], StepAt(steps[p], cur[p]))

C6_NoEntryAfterFailure ==
    \A p \in Procs :
        (/\ pc[p] = "raised"
         /\ frame[p].dir # None
         /\ InDocker(steps[p], StepAt(steps[p], cur[p])))
        => (CachedImagePath(frame[p].dir, steps[p], StepAt(steps[p], cur[p]), fs)
                \in FilePaths
            => frame[p].had_entry)

\* C7: deploy enters run for the steps in chain order, once each, and the run
\* of a step is entered right after the run of the step before it returned.
C7_RunsInChainOrder ==
    \A k \in 1..Len(log) :
        log[k].ev = "run" =>
            /\ k > 1
            /\ IF log[k].i = 1 THEN log[k - 1].ev = "deploy"
               ELSE log[k - 1] = Event("ret", log[k].i - 1, "")
            /\ \A m \in 1..Len(log) :
                  (m # k /\ log[m].ev = "run" /\ SameDeploy(k, m)) => log[m].i # log[k].i

\* One deploy has run three steps, the first of them a build (a miss) and a
\* later one a load (a hit), and has completed.
C7_Witness ==
    \E k \in 1..Len(log) :
        /\ log[k] = Event("ret", 3, "")
        /\ \E a \in 1..k, b \in 1..k :
              /\ SameDeploy(a, k) /\ SameDeploy(b, k)
              /\ log[a].ev = "exec" /\ log[a].i = 1
              /\ log[b].ev = "load" /\ log[b].i > 1

\* C8: an exception of a run leaves deploy at once: no later step is run in
\* that deploy and the failed step is not run again.
C8_FailureAbortsDeploy ==
    \A k \in 1..Len(log) :
        log[k].ev = "raise" =>
            /\ k < Len(log) /\ log[k + 1].ev = "failed"
            /\ \A m \in 1..Len(log) :
                  (m > k /\ SameDeploy(k, m)) => log[m].ev = "failed"
            /\ Cardinality({m \in 1..Len(log) :
                  SameDeploy(k, m) /\ log[m] = Event("run", log[k].i, "")}) = 1

\* The first step of a longer chain has failed and deploy has been left.
C8_Witness ==
    /\ Len(log) > 1
    /\ log[Len(log)].ev = "failed"
    /\ log[Len(log) - 1] = Event("raise", 1, "")
    /\ Len(steps[1]) > 1
    /\ pc[1] = "idle"

\* C10: at the end of a run through run_in_docker, the build has been called
\* if and only if neither the image was in the registry nor the file in the
\* cache, and docker load if and only if the image was not and the file was.
C10_BuildIffBothMiss ==
    \A p \in Procs :
        EndOfDockerRun(p) =>
            /\ Called("exec") <=> (~frame[p].image_found /\ ~frame[p].file_found)
            /\ Called("load") <=> (~frame[p].image_found /\ frame[p].file_found)

\* A run has ended that found no image in the registry but the file in the
\* cache, and one that found neither is behind it.
C10_Witness ==
    /\ EndOfDockerRun(1)
    /\ ~frame[1].image_found /\ frame[1].file_found
    /\ Called("load")
    /\ \E k \in 1..Len(log) : log[k].ev = "exec"

\* The positions of a run that is inside run_in_docker.
DockerPcs == {"run_in_docker", "docker_load", "build", "docker_run", "docker_commit",
              "build_stage", "finally", "built", "docker_save"}

\* C16: a script step runs in docker exactly when a base image was given to
\* the first step of its chain (the step itself when it has no step before
\* it), and on the host otherwise, in every run of every deploy.
C16_InDockerIffBaseImage ==
    LET ss == steps[1]
        given == ss[1].base_docker_image # None
    IN /\ \A k \in 1..Len(log) :
             (log[k].ev = "exec" /\ ss[log[k].i].cls \notin DockerFileClasses) =>
                 log[k].arg = (IF given THEN "docker_run" ELSE "script")
       /\ (pc[1] \in DockerPcs \cup {"run_locally"}
           /\ ss[StepAt(ss, cur[1])].cls \notin DockerFileClasses) =>
              (pc[1] \in DockerPcs <=> given)

\* The second step of a chain that was given a base image has run in docker
\* in two deploys.
C16_Witness ==
    \E a \in 1..Len(log), b \in 1..Len(log) :
        /\ a < b
        /\ log[a] = Event("exec", 2, "docker_run")
        /\ log[b] = Event("exec", 2, "docker_run")
        /\ steps[1][1].base_docker_image # None

\* C17 as claimed: when docker run is about to start the container of a step
\* that has a step before it, the image it names is the result_image_name the
\* step before it has on the tree as it is then.
C17_BaseIsPreviousResult ==
    \A p \in Procs :
        LET ss == steps[p]
            i == StepAt(ss, cur[p])
        IN (pc[p] = "docker_run" /\ ss[i].previous_step # 0) =>
              ss[i].base_docker_image
                  = Some(ResultImageName(ss, ss[i].previous_step, fs))

\* C22: a file at a final cache location stays as it is in every step of
\* deploy, but for docker save filling the file that the same run has just
\* opened.
C22_EntryNeverRewritten ==
    [][\A x \in files :
          \/ x \in files'
          \/ /\ x.state = "partial"
             /\ pc[1] = "docker_save"
             /\ [path |-> x.path, state |-> "complete"] \in files']_vars

\* A run has found the file of its step in the cache directory and loaded it.
C22_Witness ==
    /\ pc[1] = "returned"
    /\ frame[1].file_found
    /\ log[Len(log)].ev = "load"
    /\ [path |-> CachedImagePath(frame[1].dir, steps[1], StepAt(steps[1], cur[1]), fs),
        state |-> "complete"] \in files

(***************************************************************************)
(* Properties of deploy called with several cache directories              *)
(* (SpecDeployDirs).                                                       *)
(***************************************************************************)
\* deploy has returned without an exception, and was given a cache directory.
DeployedWithCache ==
    /\ pc[1] = "idle"
    /\ Len(log) > 0
    /\ log[Len(log)].ev = "ok"
    /\ cache_dir # None

\* The cache directory of step i holds the complete file of its image.
HoldsImageFile(i) ==
    [path |-> CachedImagePath(StepCachePath(steps[1], i, fs), steps[1], i, fs),
     state |-> "complete"] \in files

\* C27: after deploy(cache_dir) has returned, the cache directory of every
\* step that runs in docker holds the file of the step's image, whichever
\* way the step has found or made the image.
C27_CacheHoldsImage ==
    DeployedWithCache =>
        \A i \in 1..Len(steps[1]) : InDocker(steps[1], i) => HoldsImageFile(i)

(***************************************************************************)
(* Properties of the chains that can be constructed (SpecChain).           *)
(***************************************************************************)
\* The kinds of the steps of the chain that ends in step i.
ChainOf(ss, i) == [k \in 1..i |-> ss[k].cls]

\* Steps i of p and j of q have a unique_name, and the two are the same.
SameUniqueName(p, i, q, j) ==
    /\ ~UniqueNameRaises(steps[p], i)
    /\ ~UniqueNameRaises(steps[q], j)
    /\ UniqueName(steps[p], i) = UniqueName(steps[q], j)

\* C23, first part: two steps with the same architecture and initial image
\* whose chains differ in the kind of some step have different unique_names.
C23_PredecessorsEncoded ==
    \A p \in Procs, q \in Procs :
        \A i \in 1..Len(steps[p]), j \in 1..Len(steps[q]) :
            (/\ ChainOf(steps[p], i) # ChainOf(steps[q], j)
             /\ steps[p][i].architecture = steps[q][j].architecture
             /\ InitialDockerImage(steps[p], i) = InitialDockerImage(steps[q], j))
            => ~SameUniqueName(p, i, q, j)

\* C23, second part: two steps with the same chain that differ in the
\* architecture or in the initial image have different unique_names.
C23_BaseImageEncoded ==
    \A p \in Procs, q \in Procs :
        \A i \in 1..Len(steps[p]), j \in 1..Len(steps[q]) :
            (/\ ChainOf(steps[p], i) = ChainOf(steps[q], j)
             /\ \/ steps[p][i].architecture # steps[q][j].architecture
                \/ InitialDockerImage(steps[p], i) # InitialDockerImage(steps[q], j))
            => ~SameUniqueName(p, i, q, j)

\* C23 as claimed: two steps that differ in the kind of any step of their
\* chains, in the architecture or in the initial image have different
\* unique_names.
C23_UniqueNameEncodesChain ==
    \A p \in Procs, q \in Procs :
        \A i \in 1..Len(steps[p]), j \in 1..Len(steps[q]) :
            (\/ ChainOf(steps[p], i) # ChainOf(steps[q], j)
             \/ steps[p][i].architecture # steps[q][j].architecture
             \/ InitialDockerImage(steps[p], i) # InitialDockerImage(steps[q], j))
            => ~SameUniqueName(p, i, q, j)

\* C26 as claimed: a Deployment that has been constructed has a step.
C26_DeploymentHasStep ==
    \A p \in Procs : Constructed(p) => Len(steps[p]) >= 1

\* C30 as claimed: in a Deployment that has been constructed, in_docker of
\* every step is in_docker of the first step.
C30_OneModePerDeployment ==
    \A k \in 1..Len(evals) :
        \A i \in 1..Len(evals[k].in_docker) :
            evals[k].in_docker[i] = evals[k].in_docker[1]

(***************************************************************************)
(* Properties of deploy of any chain (SpecChainDeploy).                    *)
(***************************************************************************)
\* C25: run never takes a DockerFileDeploymentStep to _run_locally, and no
\* script of such a step is executed on the host, whatever the chain and
\* with or without a base image.
C25_DockerFileStepNeverOnHost ==
    /\ \A p \in Procs :
          pc[p] = "run_locally" =>
              steps[p][StepAt(steps[p], cur[p])].cls \notin DockerFileClasses
    /\ \A k \in 1..Len(log) :
          (log[k].ev = "exec" /\ log[k].arg = "script") =>
              steps[1][log[k].i].cls \notin DockerFileClasses

\* run has taken a DockerFileDeploymentStep whose chain has no base image to
\* run_in_docker.
C25_Witness ==
    /\ pc[1] = "run_in_docker"
    /\ steps[1][StepAt(steps[1], cur[1])].cls \in DockerFileClasses
    /\ InitialDockerImage(steps[1], StepAt(steps[1], cur[1])) = None

(***************************************************************************)
(* Properties of the builder steps (SpecBuilder).                          *)
(***************************************************************************)
\* The directories that are the output directory of a step.
OutputDirectories ==
    UNION {{OutputDirectory(steps[p][i]) : i \in 1..Len(steps[p])} : p \in Procs}

\* C9 as claimed: when a run has come back to its caller, with an error or
\* without, the container it has created is removed.
C9_ContainerRemovedAtReturn ==
    \A p \in Procs :
        (pc[p] = "idle" /\ log # <<>> /\ log[Len(log)].ev \in {"failed", "ok"})
        => containers = {}

\* The process is about to execute the script of the step on top of its
\* stack, on the host or in a container.
AtScript(p) == pc[p] \in {"locally", "rm", "docker_run"}

\* The step of the k-th call on the stack of p has its output directory.
HasOutput(p, k) == OutputDirectory(steps[p][frame[p][k].step]) \in FilePaths

\* C21 as claimed: no script is executed for a step whose output directory
\* is there, and no step is run on behalf of such a step.
C21_NoScriptOnHit ==
    steps[1] # <<>> =>
        /\ AtScript(1) => ~HasOutput(1, Len(frame[1]))
        /\ \A k \in 1..(Len(frame[1]) - 1) : ~HasOutput(1, k)

\* C21 amended: a script is executed for a step whose output directory is
\* there only when the step is an EnvironmentBuilderStep that runs on the
\* host; no step is run on behalf of a step whose output directory is there.
C21_OnlyLocalEnvironmentRerun ==
    steps[1] # <<>> =>
        /\ (AtScript(1) /\ HasOutput(1, Len(frame[1]))) =>
              /\ TopStep(1).kind = "environment"
              /\ ~RunsInDocker(TopStep(1))
              /\ pc[1] = "locally"
        /\ \A k \in 1..(Len(frame[1]) - 1) : ~HasOutput(1, k)

\* A run of an ArtifactBuilderStep has found the output directory and come
\* back at once, and a local EnvironmentBuilderStep is about to run its
\* script beside its output directory.
C21_Witness ==
    /\ pc[1] = "locally"
    /\ HasOutput(1, Len(frame[1]))
    /\ \E k \in 1..(Len(log) - 1) :
          /\ log[k].ev = "run" /\ log[k + 1].ev = "ret"
          /\ steps[1][log[k].i].kind = "artifact"

\* The place in the log where the run that is on top of the stack was entered.
LastRun(i) ==
    CHOOSE r \in 1..Len(log) :
        /\ log[r].ev = "run" /\ log[r].i = i
        /\ \A k \in (r + 1)..Len(log) : ~(log[k].ev = "run" /\ log[k].i = i)

\* The run of step d that was entered at place m has returned since, and the
\* output directory of d is at its final location.
FinishedSince(m, d) ==
    /\ \E k \in (m + 1)..Len(log) : log[k].ev = "ret" /\ log[k].i = d
    /\ OutputDirectory(steps[1][d]) \in FilePaths

\* Step d was run, since place r of the log, and has returned before step b
\* was run.
RunBefore(r, d, b) ==
    \E k \in (r + 1)..Len(log) :
        /\ log[k].ev = "ret" /\ log[k].i = d
        /\ \E m \in (k + 1)..Len(log) : log[m].ev = "run" /\ log[m].i = b

\* C28: a step that has not found its output directory starts its script
\* only when each of its dependency steps and its base step has been run by
\* it and has returned, its output directory at the final location, the
\* dependency steps before the base step.
C28_PreviousStepsFinishedFirst ==
    (steps[1] # <<>> /\ AtScript(1) /\ ~Top(1).cache_exists) =>
        LET st == TopStep(1)
            r == LastRun(Top(1).step)
        IN /\ \A k \in 1..Len(st.dependency_steps) :
                 /\ FinishedSince(r, st.dependency_steps[k])
                 /\ st.base_step # 0 => RunBefore(r, st.dependency_steps[k], st.base_step)
           /\ st.base_step # 0 => FinishedSince(r, st.base_step)

\* A step with a dependency step and a base step is about to run its script.
C28_Witness ==
    /\ pc[1] = "locally"
    /\ ~Top(1).cache_exists
    /\ TopStep(1).dependency_steps # <<>>
    /\ TopStep(1).base_step # 0

\* The same for the output directories of the builder steps: a directory at
\* its final location stays as it is in every step of Builder.run.
C22_OutputDirectoryKept ==
    [][\A x \in files : x.path \in OutputDirectories => x \in files']_vars

(***************************************************************************)
(* Properties of Builder.run on shared steps (SpecSharedSteps).            *)
(***************************************************************************)
\* The number of times the script of step i was started, and the number of
\* times run of step i was called.
Execs(i) == Cardinality({k \in 1..Len(log) : log[k].ev = "exec" /\ log[k].i = i})

Runs(i) == Cardinality({k \in 1..Len(log) : log[k].ev = "run" /\ log[k].i = i})

\* The first Builder.run of the process, on a build root that was empty.
FirstBuilderRun == steps[1] # <<>> /\ ndeploys <= 1

\* C29 as claimed: in one Builder.run on an empty build root the script of
\* every step is started at most once.
C29_ScriptAtMostOnce ==
    FirstBuilderRun => \A i \in 1..Len(steps[1]) : Execs(i) <= 1

\* C29 amended: the script of every ArtifactBuilderStep and of every
\* EnvironmentBuilderStep that runs in docker is started at most once; that
\* of an EnvironmentBuilderStep on the host at most once for each call of
\* its run.
C29_ScriptOnceUnlessLocalEnvironment ==
    FirstBuilderRun =>
        \A i \in 1..Len(steps[1]) :
            /\ Execs(i) <= Runs(i)
            /\ (steps[1][i].kind = "artifact" \/ RunsInDocker(steps[1][i]))
                  => Execs(i) <= 1

\* The run of a shared ArtifactBuilderStep was called a second time and has
\* returned, its script started once.
C29_Witness ==
    /\ FirstBuilderRun
    /\ \E i \in 1..Len(steps[1]) :
          /\ steps[1][i].kind = "artifact"
          /\ Runs(i) = 2
          /\ Execs(i) = 1
          /\ log[Len(log)] = Event("ret", i, "")

(***************************************************************************)
(* Properties of two Builders on one build root (SpecBuilders).            *)
(***************************************************************************)
\* Both processes have constructed the same steps.
SameBuilder ==
    /\ steps[1] # <<>>
    /\ Len(steps[1]) = Len(steps[2])
    /\ \A i \in 1..Len(steps[1]) : steps[1][i].name = steps[2][i].name

\* C18 as claimed: when two processes run the same steps on one build root,
\* every output directory holds the complete output of a run, and a process
\* whose script has succeeded finds its temporary directory as the script
\* left it and no output directory in the way, so that its rename succeeds.
C18_SameStepRaceIsBenign ==
    SameBuilder =>
        /\ \A x \in files :
              x.path \in OutputDirectories => x.state = "complete"
        /\ \A p \in Procs :
              (pc[p] = "finish" /\ ~Top(p).cache_exists) =>
                  /\ TempOutputDirectory(TopStep(p)) \in FilePaths
                  /\ DirState(TempOutputDirectory(TopStep(p))) = "complete"
                  /\ OutputDirectory(TopStep(p)) \notin FilePaths

\* One process alone: the same holds for every Builder.
C18_AloneIsBenign ==
    /\ \A x \in files :
          x.path \in OutputDirectories => x.state = "complete"
    /\ (pc[1] = "finish" /\ ~Top(1).cache_exists) =>
          /\ TempOutputDirectory(TopStep(1)) \in FilePaths
          /\ DirState(TempOutputDirectory(TopStep(1))) = "complete"
          /\ OutputDirectory(TopStep(1)) \notin FilePaths

\* The processes have constructed steps none of which has the name of a step
\* of the other.
DifferentBuilders ==
    /\ steps[1] # <<>>
    /\ steps[2] # <<>>
    /\ \A i \in 1..Len(steps[1]), j \in 1..Len(steps[2]) :
          steps[1][i].name # steps[2][j].name

\* C19 as claimed: when two processes run different steps against one docker
\* daemon, the container a process has run is there when the process comes
\* to commit it.
C19_ContainerNotRemovedByOther ==
    DifferentBuilders =>
        \A p \in Procs : pc[p] = "docker_commit" => ContainerName \in containers

\* One process alone: the container it has run is there at docker commit.
C19_AloneContainerKept ==
    pc[1] = "docker_commit" => ContainerName \in containers

====
